---- MODULE Spec2Model ----
(***************************************************************************)
(* PKM knowledge-graph backend: the request handlers of api.rs running     *)
(* concurrently against the mutex-guarded GraphManager of AppState.        *)
(*                                                                         *)
(* The handlers (dispatch, parsing guards, locking, the batch loop, the    *)
(* responses) are translated from api.rs.  graph_manager.rs and            *)
(* pkm_data.rs are not part of the source tree at hand; the GraphManager   *)
(* operations the handlers call are modelled from the specification and    *)
(* are marked as such where they are defined.                              *)
(***************************************************************************)
EXTENDS Integers, Sequences, FiniteSets, TLC

(* ------------------------------------------------------------------ *)
(* Bounds                                                               *)
(* ------------------------------------------------------------------ *)

\* Longest batch payload (number of items in the JSON array)
MaxBatch == 2

\* Number of requests that arrive in one run
MaxOps == 2

\* Number of requests that arrive in a run about the order at the lock
MaxCalls == 3

\* Hours the clock runs
MaxClock == 3

\* Hours after which a full sync is stale ("True if >2 hours or never")
StaleHours == 2

\* Seconds of the configured duration
DurationSecs == 2

\* Seconds the shutdown waits for the sync completion: Duration::from_secs(10)
GraceSecs == 10

\* Concurrent request slots (tokio worker tasks serving a request each)
Req == {"r1", "r2"}

\* Identifiers: page names and block ids are separate namespaces, and the
\* page "a" is another node than the block "a"
PageNames == {"a"}

BlockIds == {"a", "b"}

None == "none"

\* Option<timestamp>::None: no sync recorded
Never == -1

(* ------------------------------------------------------------------ *)
(* Data                                                                 *)
(* ------------------------------------------------------------------ *)

Kinds == {"page", "block"}

IdsOf(kind) == IF kind = "page" THEN PageNames ELSE BlockIds

NodeKeys == {k \in Kinds \X (PageNames \cup BlockIds) : k[2] \in IdsOf(k[1])}

EmptyGraph == [k \in NodeKeys |-> "absent"]

NodeKind(type) == IF type \in {"block", "blocks"} THEN "block" ELSE "page"

\* Property values of a payload
Contents == {"x", "y"}

\* One PKMBlockData / PKMPageData: its identifier, possibly empty, here
\* with no parent page and one content
ItemsOf(kind) == [id : {""} \cup IdsOf(kind), parent_page : {""}, content : {"x"}]

\* The same with the fields the references and properties come from: a
\* block may name a parent page, and the content varies
RichItemsOf(kind) ==
    [id : {""} \cup IdsOf(kind),
     parent_page : IF kind = "block" THEN {""} \cup PageNames ELSE {""},
     content : Contents]

RECURSIVE SeqsUpTo(_, _)
SeqsUpTo(S, n) ==
    IF n = 0 THEN {<< >>}
    ELSE LET shorter == SeqsUpTo(S, n - 1)
         IN  shorter \cup {Append(s, x) : s \in {t \in shorter : Len(t) = n - 1}, x \in S}

NoReq == [type |-> "none", parses |-> FALSE, items |-> << >>,
          sync_type |-> "", pages |-> {}, blocks |-> {}]

\* POST /data with type_ "block" or "page": the payload parses to one item or not
SingleRequests ==
    {[NoReq EXCEPT !.type = t] : t \in {"block", "page"}}
    \cup UNION {{[NoReq EXCEPT !.type = t, !.parses = TRUE, !.items = <<it>>] :
                    it \in ItemsOf(NodeKind(t))} : t \in {"block", "page"}}

\* POST /data with type_ "blocks"/"block_batch" or "pages"/"page_batch"
BatchRequests ==
    {[NoReq EXCEPT !.type = t] : t \in {"blocks", "pages"}}
    \cup UNION {{[NoReq EXCEPT !.type = t, !.parses = TRUE, !.items = s] :
                    s \in SeqsUpTo(ItemsOf(NodeKind(t)), MaxBatch)} :
                 t \in {"blocks", "pages"}}

\* POST /data with type_ "block" or "page", the payload with parent page
\* and content
RichSingleRequests ==
    {[NoReq EXCEPT !.type = t] : t \in {"block", "page"}}
    \cup UNION {{[NoReq EXCEPT !.type = t, !.parses = TRUE, !.items = <<it>>] :
                    it \in RichItemsOf(NodeKind(t))} : t \in {"block", "page"}}

\* The items of a batch with parent pages: valid, of the one content
RichBatchItemsOf(kind) == {it \in RichItemsOf(kind) : it.id # "" /\ it.content = "x"}

\* POST /data with type_ "blocks" or "pages", the items with parent pages
RichBatchRequests ==
    {[NoReq EXCEPT !.type = t] : t \in {"blocks", "pages"}}
    \cup UNION {{[NoReq EXCEPT !.type = t, !.parses = TRUE, !.items = s] :
                    s \in SeqsUpTo(RichBatchItemsOf(NodeKind(t)), MaxBatch)} :
                 t \in {"blocks", "pages"}}

\* GET /sync/status
StatusRequests == {[NoReq EXCEPT !.type = "status", !.parses = TRUE]}

\* PATCH /sync: the body names a sync_type or has no such field
SyncRequests ==
    {[NoReq EXCEPT !.type = "sync", !.parses = TRUE, !.sync_type = s] :
        s \in {"absent", "incremental", "full", "weekly"}}

\* POST /sync/verify
VerifyRequests ==
    {[NoReq EXCEPT !.type = "verify", !.parses = TRUE, !.pages = P, !.blocks = B] :
        P \in SUBSET PageNames, B \in SUBSET BlockIds}

\* A response: the ApiResponse of a handler, or the JSON object of
\* get_sync_status, whose keys are FALSE where the object has no such key
NoResp == [success |-> FALSE, msg |-> "none", s |-> 0, n |-> 0, e |-> 0,
           reference_count |-> 0,
           full_sync_needed |-> FALSE, incremental_sync_needed |-> FALSE,
           true_full_sync_needed |-> FALSE, force_full_sync |-> FALSE,
           force_incremental_sync |-> FALSE]

Resp(ok, msg) == [NoResp EXCEPT !.success = ok, !.msg = msg]

VARIABLES
    graph,        \* GraphManager: node key -> "absent", "active" or "archived"
    props,        \* GraphManager: node key -> the node's properties, "none" without
    edges,        \* GraphManager: the references, pairs <<from key, to key>>
    placeholder_pages,  \* GraphManager: a block naming an unknown page creates it
    autoSave,     \* GraphManager: the auto-save flag
    lastFull,     \* GraphManager: last_full_sync
    lastIncr,     \* GraphManager: last_incremental_sync
    disk,         \* the persisted graph file
    archives,     \* the archive directory: one record per file
    lock,         \* AppState.graph_manager: the Mutex's holder
    waitq,        \* the requests blocked in lock(), in the order they began to wait
    functions,    \* FunctionRegistry.functions: name -> the function, "none" without
    declarations, \* FunctionRegistry.declarations
    registered,   \* the register calls made so far, in call order
    outcome,      \* the last execute: the function it called and what it returned
    temp_builder, \* ReplBuilder.temp_builder
    existing_config,  \* ReplBuilder.existing_config
    agent_name,   \* ReplBuilder.agent_name
    original,     \* the configuration with_config was given
    session,      \* the ReplBuilder's stage and what build returned
    now,          \* the clock
    pc,           \* per request slot: position in its handler
    req,          \* per request slot: the request being handled
    idx,          \* per request slot: batch loop position
    success_count,
    error_count,
    resp,         \* per request slot: the ApiResponse returned
    writes,       \* per request slot: disk writes attempted while handling it
    saveFailed,   \* per request slot: the batch's final save_graph failed
    before,       \* per request slot: the graph as the batch found it
    ops,          \* requests arrived so far
    force_full_sync,         \* AppState.force_full_sync
    force_incremental_sync,  \* AppState.force_incremental_sync
    main_pc,          \* position of main / run_with_duration
    duration_secs,    \* args.duration.or(config default): configured or not
    logseq_child,     \* AppState.logseq_child: "none", "running" or "killed"
    plugin_init_tx,   \* AppState.plugin_init_tx: "none" or "some"
    sync_complete_tx, \* AppState.sync_complete_tx: "none" or "some"
    init_chan,        \* the oneshot channel of plugin initialization
    sync_chan,        \* the oneshot channel of sync completion
    remaining,        \* seconds left of tokio::time::sleep(duration_secs)
    waited,           \* seconds spent in the 10 second sleep of the sync wait
    server_info,      \* SERVER_INFO_FILE exists
    exit_reason       \* why the process ended, "none" while it runs

store == <<graph, props, edges, placeholder_pages, autoSave, lastFull, lastIncr,
           disk, archives>>

handlers == <<pc, req, idx, success_count, error_count, resp, writes, saveFailed,
              before>>

\* What no handler of a store request changes: the clock and the rest of
\* the process
\* main's own state: the lifecycle around the server
lifecycle == <<main_pc, duration_secs, logseq_child, plugin_init_tx,
               sync_complete_tx, init_chan, sync_chan, remaining, waited,
               server_info, exit_reason>>

process == <<now, force_full_sync, force_incremental_sync, lifecycle>>

\* The aichat-agent library: a FunctionRegistry and a ReplBuilder
library == <<functions, declarations, registered, outcome, temp_builder,
             existing_config, agent_name, original, session>>

aside == <<process, waitq, library>>

vars == <<graph, props, edges, placeholder_pages, autoSave, lastFull, lastIncr,
          disk, archives, lock,
          pc, req, idx, success_count, error_count, resp, writes, saveFailed,
          before, ops, aside>>

(* ------------------------------------------------------------------ *)
(* GraphManager (graph_manager.rs), modelled from the specification     *)
(* ------------------------------------------------------------------ *)

\* What a persistence write stores: the graph with its properties and
\* references, and the sync state
Snapshot(g, p, e, full, incr) ==
    [graph |-> g, props |-> p, edges |-> e, full |-> full, incr |-> incr]

\* No node has properties
NoProps == [k \in NodeKeys |-> "none"]

\* The properties of nodes that were ingested with the one content
DefaultProps(g) == [k \in NodeKeys |-> IF g[k] = "absent" THEN "none" ELSE "x"]

\* PKMBlockData::validate / PKMPageData::validate: the identifier is non-empty
Validate(item) == item.id # ""

\* Mutant: an update of an archived node leaves it archived
CreateOrUpdate_KeepsArchived(g, kind, item) ==
    IF g[<<kind, item.id>>] = "archived" THEN g
    ELSE [g EXCEPT ![<<kind, item.id>>] = "active"]

\* The page node a block payload names as its parent_page
ParentKey(item) == <<"page", item.parent_page>>

\* The payload names a parent page that is no node of the store yet
NamesUnknownPage(g, kind, item) ==
    /\ kind = "block"
    /\ item.parent_page # ""
    /\ g[ParentKey(item)] = "absent"

\* create_or_update_node_from_pkm_block / _page on the in-memory graph:
\* insert, update in place (last write wins), or re-create an archived
\* node; where the store creates placeholder pages, an unknown parent page
\* becomes a node too
CreateOrUpdate(g, kind, item) ==
    [k \in NodeKeys |->
        IF k = <<kind, item.id>> THEN "active"
        ELSE IF placeholder_pages /\ NamesUnknownPage(g, kind, item) /\ k = ParentKey(item)
        THEN "active"
        ELSE g[k]]

\* The properties after the same call: the payload's, last write wins
MergeProps(p, kind, item) ==
    [p EXCEPT ![<<kind, item.id>>] = item.content]

\* Mutant: the reference is stored whether or not the page is a node
MergeEdges_Dangling(e, g, kind, item) ==
    IF kind = "block" /\ item.parent_page # ""
    THEN e \cup {<<(<<kind, item.id>>), ParentKey(item)>>}
    ELSE e

\* The references after the same call: the block's reference to its
\* parent page is merged into the set when that page is a node of the
\* graph g after the call
MergeEdges(e, g, kind, item) ==
    IF kind = "block" /\ item.parent_page # "" /\ g[ParentKey(item)] # "absent"
    THEN e \cup {<<(<<kind, item.id>>), ParentKey(item)>>}
    ELSE e

\* The outcomes of the implicit persistence write of a mutation: not due,
\* written, or failed; none when auto-save is disabled
AutoSaveOutcomes(enabled) ==
    IF enabled THEN {"skipped", "written", "failed"} ELSE {"skipped"}

\* Mutant: the reference is stored only when the page was a node before
\* the call, so a placeholder page gets its reference at the next call
StoreAfter_EdgeBeforePage(g, p, e, kind, item) ==
    [graph |-> CreateOrUpdate(g, kind, item),
     props |-> MergeProps(p, kind, item),
     edges |-> MergeEdges(e, g, kind, item)]

\* The in-memory store after create_or_update_node_from_pkm_block / _page
StoreAfter(g, p, e, kind, item) ==
    [graph |-> CreateOrUpdate(g, kind, item),
     props |-> MergeProps(p, kind, item),
     edges |-> MergeEdges(e, CreateOrUpdate(g, kind, item), kind, item)]

\* Mutant: the archived nodes are counted with the active ones
NodeCount_Stored(g) == Cardinality({k \in NodeKeys : g[k] # "absent"})

\* node_count(): the active nodes
NodeCount(g) == Cardinality({k \in NodeKeys : g[k] = "active"})

\* reference_count(): the references between active nodes
ReferenceCount(g, e) ==
    Cardinality({x \in e : g[x[1]] = "active" /\ g[x[2]] = "active"})

\* verify_and_archive_missing_nodes: the active nodes not listed as live,
\* each kind against the live set of its own kind
MissingNodes(g, pages, blocks) ==
    {k \in NodeKeys :
        /\ g[k] = "active"
        /\ \/ k[1] = "page" /\ k[2] \notin pages
           \/ k[1] = "block" /\ k[2] \notin blocks}

\* Mutant: a full sync is stale from the threshold on
FullSyncNeeded_AtThreshold(last, t) ==
    last = Never \/ t - last >= StaleHours

\* get_sync_status: full_sync_needed, true when no full sync was recorded
\* or the hours since it exceed the threshold
FullSyncNeeded(last, t) ==
    last = Never \/ t - last > StaleHours

\* get_sync_status: the report
SyncStatus(g, e, last, t) ==
    [Resp(TRUE, "status") EXCEPT !.n = NodeCount(g),
                                 !.reference_count = ReferenceCount(g, e),
                                 !.full_sync_needed = FullSyncNeeded(last, t)]

ArchiveNodes(g, missing) ==
    [k \in NodeKeys |-> IF k \in missing THEN "archived" ELSE g[k]]

ArchiveFile(missing, at) == [at |-> at, nodes |-> missing]

(* ------------------------------------------------------------------ *)
(* tokio::sync::oneshot channels and main's lifecycle state             *)
(* ------------------------------------------------------------------ *)

\* A oneshot channel: values sent into it, values received from it, and
\* its Receiver ("none" before oneshot::channel(), then "alive", "dropped")
NoChannel == [sent |-> 0, rcvd |-> 0, rx |-> "none"]

\* oneshot::channel::<()>()
NewChannel == [sent |-> 0, rcvd |-> 0, rx |-> "alive"]

(* ------------------------------------------------------------------ *)
(* aichat-agent-lib: FunctionRegistry (functions.rs) and ReplBuilder    *)
(* (repl_wrapper.rs)                                                    *)
(* ------------------------------------------------------------------ *)

\* Number of register calls in one run
MaxRegs == 3

\* The names functions are registered and executed under; "missing" is
\* executed and never registered
FnNames == {"hello", "add"}

ExecNames == FnNames \cup {"missing"}

\* The closures handed to register: "f" returns Ok, "g" returns Err
NativeFunctions == {"f", "g"}

\* The arguments of an execute
ArgValues == {0, 1}

\* func(args): the Result of the closure
Call(func, args) ==
    IF func = "g"
    THEN [ok |-> FALSE, value |-> <<"failed", args>>]
    ELSE [ok |-> TRUE, value |-> <<func, args>>]

\* The FunctionDeclaration register builds: an object schema, agent: false
SimpleDeclaration(name, description) ==
    [name |-> name, description |-> description, parameters |-> "object",
     agent |-> FALSE]

\* The FunctionDeclarations a caller can hand to register_with_declaration
FullDeclarations ==
    [name : FnNames, description : {"declared"}, parameters : {"schema"},
     agent : BOOLEAN]

\* HashMap::new()
NoFunctions == [n \in ExecNames |-> "none"]

\* No execute yet
NoOutcome == [called |-> "none", ok |-> FALSE, value |-> <<"none", 0>>]

\* Number of api_key, model and agent calls on one ReplBuilder
MaxSets == 3

\* The models and keys of a configuration
Models == {"gpt", "claude"}

ApiKeys == {"sk-test", "sk-new"}

AgentNames == {"math", "coder"}

\* Option::None of a TempConfigBuilder or a GlobalConfig
NoConfig == [some |-> FALSE, model |-> "", clients |-> << >>]

\* Some(config): config_data["model"] and the keys of config_data["clients"]
SomeConfig(model, clients) == [some |-> TRUE, model |-> model, clients |-> clients]

\* No ReplBuilder yet
NoSession ==
    [stage |-> "unmade", calls |-> << >>, config |-> NoConfig, agent |-> "none"]

\* FunctionRegistry::new(), and no ReplBuilder made
LibraryUnused ==
    /\ functions = NoFunctions
    /\ declarations = << >>
    /\ registered = << >>
    /\ outcome = NoOutcome
    /\ temp_builder = NoConfig
    /\ existing_config = NoConfig
    /\ agent_name = "none"
    /\ original = NoConfig
    /\ session = NoSession

\* The server of a process started without duration and without launching
\* Logseq: axum::serve(listener, app) for ever
ServingForEver ==
    /\ main_pc = "serve"
    /\ duration_secs = FALSE
    /\ logseq_child = "none"
    /\ plugin_init_tx = "none"
    /\ sync_complete_tx = "none"
    /\ init_chan = NoChannel
    /\ sync_chan = NoChannel
    /\ remaining = 0
    /\ waited = 0
    /\ server_info = TRUE
    /\ exit_reason = "none"

(* ------------------------------------------------------------------ *)
(* Initial state: GraphManager::new on an empty data directory          *)
(* ------------------------------------------------------------------ *)

Init ==
    /\ graph = EmptyGraph
    /\ props = NoProps
    /\ edges = {}
    /\ placeholder_pages = FALSE
    /\ autoSave = TRUE
    /\ lastFull = Never
    /\ lastIncr = Never
    /\ disk = Snapshot(EmptyGraph, NoProps, {}, Never, Never)
    /\ archives = << >>
    /\ lock = None
    /\ waitq = << >>
    /\ LibraryUnused
    /\ now = 0
    /\ pc = [r \in Req |-> "idle"]
    /\ req = [r \in Req |-> NoReq]
    /\ idx = [r \in Req |-> 0]
    /\ success_count = [r \in Req |-> 0]
    /\ error_count = [r \in Req |-> 0]
    /\ resp = [r \in Req |-> NoResp]
    /\ writes = [r \in Req |-> 0]
    /\ saveFailed = [r \in Req |-> FALSE]
    /\ before = [r \in Req |-> EmptyGraph]
    /\ ops = 0
    /\ force_full_sync = FALSE
    /\ force_incremental_sync = FALSE
    /\ ServingForEver

(* ------------------------------------------------------------------ *)
(* Requests arriving and returning                                      *)
(* ------------------------------------------------------------------ *)

\* axum hands a request to a free handler task
Arrives(r) ==
    /\ pc[r] \in {"idle", "done"}
    /\ ops < MaxOps
    /\ ops' = ops + 1

\* The handler goes on with request q
Admit(r, q, next) ==
    /\ pc' = [pc EXCEPT ![r] = next]
    /\ req' = [req EXCEPT ![r] = q]
    /\ resp' = [resp EXCEPT ![r] = NoResp]
    /\ UNCHANGED <<idx, success_count, error_count, writes, saveFailed, before>>

\* The handler returns Json(response): its locals are gone
Return(r, response) ==
    /\ pc' = [pc EXCEPT ![r] = "done"]
    /\ resp' = [resp EXCEPT ![r] = response]
    /\ req' = [req EXCEPT ![r] = NoReq]
    /\ idx' = [idx EXCEPT ![r] = 0]
    /\ success_count' = [success_count EXCEPT ![r] = 0]
    /\ error_count' = [error_count EXCEPT ![r] = 0]
    /\ writes' = [writes EXCEPT ![r] = 0]
    /\ saveFailed' = [saveFailed EXCEPT ![r] = FALSE]
    /\ before' = [before EXCEPT ![r] = EmptyGraph]

\* A step of a handler that only moves on
Goto(r, next) ==
    /\ pc' = [pc EXCEPT ![r] = next]
    /\ UNCHANGED <<req, idx, success_count, error_count, resp, writes,
                   saveFailed, before>>

(* ------------------------------------------------------------------ *)
(* AppState.graph_manager: std::sync::Mutex<GraphManager>               *)
(* ------------------------------------------------------------------ *)

\* Mutant: the guard is taken without waiting for the holder to drop it
LockGraphManager_NoWait(r) ==
    lock' = r

\* state.graph_manager.lock().unwrap(): blocks until the mutex is free
LockGraphManager(r) ==
    /\ lock = None
    /\ lock' = r

\* Mutant: the guard is not dropped when the handler is done with it
DropGuard_Leaks(r) == lock' = lock

\* drop(graph_manager), or the guard going out of scope
DropGuard(r) == lock' = None

\* The positions of a handler between its lock() and the drop of the guard
Inside == {"s_apply", "b_disable", "b_item", "b_save", "b_release",
           "q_read", "t_apply", "v_apply"}

InStore(r) == pc[r] \in Inside

(* ------------------------------------------------------------------ *)
(* GraphManager calls as part of the calling handler's step (modelled   *)
(* from the specification)                                              *)
(* ------------------------------------------------------------------ *)

\* create_or_update_node_from_pkm_*: the mutation, then the implicit
\* persistence write with outcome o; a failed write is reported and the
\* mutation stays
GM_CreateOrUpdate(kind, item, o) ==
    /\ graph' = StoreAfter(graph, props, edges, kind, item).graph
    /\ props' = StoreAfter(graph, props, edges, kind, item).props
    /\ edges' = StoreAfter(graph, props, edges, kind, item).edges
    /\ disk' = IF o = "written" THEN Snapshot(graph', props', edges', lastFull, lastIncr) ELSE disk
    /\ UNCHANGED <<placeholder_pages, autoSave, lastFull, lastIncr, archives>>

\* save_graph(): a full persistence write, whatever the auto-save flag
GM_SaveGraph(ok) ==
    /\ disk' = IF ok THEN Snapshot(graph, props, edges, lastFull, lastIncr) ELSE disk
    /\ UNCHANGED <<graph, props, edges, placeholder_pages, autoSave, lastFull,
                   lastIncr, archives>>

\* update_full_sync_timestamp / update_incremental_sync_timestamp: set the
\* timestamp to now and persist
GM_UpdateSyncTimestamp(which, ok) ==
    /\ lastFull' = IF which = "full" THEN now ELSE lastFull
    /\ lastIncr' = IF which = "incremental" THEN now ELSE lastIncr
    /\ disk' = IF ok THEN Snapshot(graph, props, edges, lastFull', lastIncr') ELSE disk
    /\ UNCHANGED <<graph, props, edges, placeholder_pages, autoSave, archives>>

\* Mutant: the nodes are marked archived although the file was not written
GM_VerifyAndArchive_MarksAnyway(pages, blocks, ok) ==
    LET missing == MissingNodes(graph, pages, blocks)
    IN  /\ archives' = IF missing # {} /\ ok
                       THEN Append(archives, ArchiveFile(missing, now))
                       ELSE archives
        /\ graph' = ArchiveNodes(graph, missing)
        /\ UNCHANGED <<props, edges, placeholder_pages, autoSave, lastFull, lastIncr, disk>>

\* verify_and_archive_missing_nodes(pages, blocks): one archive file for
\* the pass, then the nodes are marked archived; nothing changes when the
\* file cannot be written or nothing is missing
GM_VerifyAndArchive(pages, blocks, ok) ==
    LET missing == MissingNodes(graph, pages, blocks)
    IN  IF missing # {} /\ ok
        THEN /\ archives' = Append(archives, ArchiveFile(missing, now))
             /\ graph' = ArchiveNodes(graph, missing)
             /\ UNCHANGED <<props, edges, placeholder_pages, autoSave, lastFull, lastIncr, disk>>
        ELSE UNCHANGED store

\* Its result: Ok((archived_count, message)) or Err
VerifyResult(pages, blocks, ok) ==
    LET missing == MissingNodes(graph, pages, blocks)
    IN  IF missing = {} \/ ok
        THEN [ok |-> TRUE, archived_count |-> Cardinality(missing)]
        ELSE [ok |-> FALSE, archived_count |-> 0]

(* ------------------------------------------------------------------ *)
(* POST /data, single item: handle_block_data / handle_page_data        *)
(* ------------------------------------------------------------------ *)

\* parse_block_data / parse_page_data, then the empty-identifier check,
\* for a request of the set Q
SingleParseOf(r, Q) ==
    /\ Arrives(r)
    /\ \E q \in Q :
          IF ~q.parses
          THEN Return(r, Resp(FALSE, "could_not_parse"))
          ELSE IF q.items[1].id = ""
          THEN Return(r, Resp(FALSE, "id_is_empty"))
          ELSE Admit(r, q, "s_lock")
    /\ UNCHANGED <<store, lock, aside>>

SingleParse(r) == SingleParseOf(r, SingleRequests)

SingleLock(r) ==
    /\ pc[r] = "s_lock"
    /\ LockGraphManager(r)
    /\ Goto(r, "s_apply")
    /\ UNCHANGED <<store, aside, ops>>

\* Mutant: when the write fails the handler puts the graph back as it was
SingleApply_RollsBack(r) ==
    /\ pc[r] = "s_apply"
    /\ \E o \in AutoSaveOutcomes(autoSave) :
          /\ IF o = "failed" THEN UNCHANGED store
             ELSE GM_CreateOrUpdate(NodeKind(req[r].type), req[r].items[1], o)
          /\ Return(r, IF o = "failed" THEN Resp(FALSE, "error_processing")
                       ELSE Resp(TRUE, "processed"))
    /\ DropGuard(r)
    /\ UNCHANGED <<aside, ops>>

\* create_or_update_node_from_pkm_*, drop(graph_manager), the response
SingleApply(r) ==
    /\ pc[r] = "s_apply"
    /\ \E o \in AutoSaveOutcomes(autoSave) :
          /\ GM_CreateOrUpdate(NodeKind(req[r].type), req[r].items[1], o)
          /\ Return(r, IF o = "failed" THEN Resp(FALSE, "error_processing")
                       ELSE Resp(TRUE, "processed"))
    /\ DropGuard(r)
    /\ UNCHANGED <<aside, ops>>

(* ------------------------------------------------------------------ *)
(* POST /data, batch: handle_batch_blocks / handle_batch_pages          *)
(* ------------------------------------------------------------------ *)

\* Mutant: a payload that is no array is taken for an empty batch
BatchParse_DefaultsToEmpty(r) ==
    /\ Arrives(r)
    /\ \E q \in BatchRequests : Admit(r, q, "b_lock")
    /\ UNCHANGED <<store, lock, aside>>

\* parse_json_data::<Vec<_>>(payload), for a request of the set Q
BatchParseOf(r, Q) ==
    /\ Arrives(r)
    /\ \E q \in Q :
          IF ~q.parses
          THEN Return(r, Resp(FALSE, "could_not_parse"))
          ELSE Admit(r, q, "b_lock")
    /\ UNCHANGED <<store, lock, aside>>

BatchParse(r) == BatchParseOf(r, BatchRequests)

\* Get a single lock on the graph for the entire batch
BatchLock(r) ==
    /\ pc[r] = "b_lock"
    /\ LockGraphManager(r)
    /\ pc' = [pc EXCEPT ![r] = "b_disable"]
    /\ before' = [before EXCEPT ![r] = graph]
    /\ UNCHANGED <<store, aside, ops, req, idx, success_count, error_count, resp,
                   writes, saveFailed>>

\* Mutant: the batch forgets to disable auto-save
BatchDisableAutoSave_Forgotten(r) ==
    /\ pc[r] = "b_disable"
    /\ Goto(r, "b_item")
    /\ UNCHANGED <<store, lock, aside, ops>>

\* graph_manager.disable_auto_save()
BatchDisableAutoSave(r) ==
    /\ pc[r] = "b_disable"
    /\ autoSave' = FALSE
    /\ Goto(r, "b_item")
    /\ UNCHANGED <<graph, props, edges, placeholder_pages, lastFull, lastIncr,
                   disk, archives, lock, aside, ops>>

\* Mutant: an item that fails validation undoes the batch so far
BatchItemInvalid_RollsBack(r) ==
    /\ error_count' = [error_count EXCEPT ![r] = @ + 1]
    /\ graph' = before[r]
    /\ UNCHANGED <<props, edges, placeholder_pages, autoSave, lastFull, lastIncr,
                   disk, archives, success_count, writes>>

\* } else { error_count += 1; }
BatchItemInvalid(r) ==
    /\ error_count' = [error_count EXCEPT ![r] = @ + 1]
    /\ UNCHANGED <<store, success_count, writes>>

\* One pass of the for loop: validate, create_or_update, count
BatchItemBody(r) ==
    /\ pc[r] = "b_item"
    /\ idx[r] < Len(req[r].items)
    /\ LET item == req[r].items[idx[r] + 1]
       IN  IF Validate(item)
           THEN \E o \in AutoSaveOutcomes(autoSave) :
                   /\ GM_CreateOrUpdate(NodeKind(req[r].type), item, o)
                   /\ writes' = [writes EXCEPT ![r] = @ + (IF o = "skipped" THEN 0 ELSE 1)]
                   /\ IF o = "failed"
                      THEN /\ error_count' = [error_count EXCEPT ![r] = @ + 1]
                           /\ UNCHANGED success_count
                      ELSE /\ success_count' = [success_count EXCEPT ![r] = @ + 1]
                           /\ UNCHANGED error_count
           ELSE BatchItemInvalid(r)
    /\ idx' = [idx EXCEPT ![r] = @ + 1]
    /\ UNCHANGED <<aside, pc, req, resp, saveFailed, before, ops>>

\* Mutant: the guard is scoped to one pass of the loop
BatchItem_GuardPerPass(r) ==
    /\ BatchItemBody(r)
    /\ lock' = None

\* The guard taken before the loop stays held through every pass
BatchItem(r) ==
    /\ BatchItemBody(r)
    /\ UNCHANGED lock

\* Mutant: auto-save is re-enabled together with the final save, only when
\* an item succeeded
BatchEnableAutoSave_OnlyOnSuccess(r) ==
    /\ pc[r] = "b_item"
    /\ idx[r] = Len(req[r].items)
    /\ autoSave' = (success_count[r] > 0)
    /\ Goto(r, "b_save")
    /\ UNCHANGED <<graph, props, edges, placeholder_pages, lastFull, lastIncr,
                   disk, archives, lock, aside, ops>>

\* graph_manager.enable_auto_save(), after the last item
BatchEnableAutoSave(r) ==
    /\ pc[r] = "b_item"
    /\ idx[r] = Len(req[r].items)
    /\ autoSave' = TRUE
    /\ Goto(r, "b_save")
    /\ UNCHANGED <<graph, props, edges, placeholder_pages, lastFull, lastIncr,
                   disk, archives, lock, aside, ops>>

\* Mutant: the save error is propagated with `?` instead of logged
BatchSave_Propagates(r) ==
    /\ pc[r] = "b_save"
    /\ IF success_count[r] > 0
       THEN \E ok \in BOOLEAN :
               /\ GM_SaveGraph(ok)
               /\ IF ok
                  THEN /\ writes' = [writes EXCEPT ![r] = @ + 1]
                       /\ pc' = [pc EXCEPT ![r] = "b_release"]
                       /\ UNCHANGED <<lock, req, idx, success_count, error_count,
                                      resp, saveFailed, before>>
                  ELSE /\ Return(r, Resp(FALSE, "error_saving"))
                       /\ DropGuard(r)
       ELSE /\ pc' = [pc EXCEPT ![r] = "b_release"]
            /\ UNCHANGED <<store, lock, req, idx, success_count, error_count,
                           resp, writes, saveFailed, before>>
    /\ UNCHANGED <<aside, ops>>

\* Mutant: the final save is made whether or not an item succeeded
BatchSave_Unconditional(r) ==
    /\ pc[r] = "b_save"
    /\ \E ok \in BOOLEAN :
          /\ GM_SaveGraph(ok)
          /\ writes' = [writes EXCEPT ![r] = @ + 1]
          /\ saveFailed' = [saveFailed EXCEPT ![r] = ~ok]
    /\ pc' = [pc EXCEPT ![r] = "b_release"]
    /\ UNCHANGED <<lock, aside, req, idx, success_count, error_count, resp, before, ops>>

\* if success_count > 0 { if let Err(e) = graph_manager.save_graph() { error!(..) } }
BatchSave(r) ==
    /\ pc[r] = "b_save"
    /\ IF success_count[r] > 0
       THEN \E ok \in BOOLEAN :
               /\ GM_SaveGraph(ok)
               /\ writes' = [writes EXCEPT ![r] = @ + 1]
               /\ saveFailed' = [saveFailed EXCEPT ![r] = ~ok]
       ELSE UNCHANGED <<store, writes, saveFailed>>
    /\ pc' = [pc EXCEPT ![r] = "b_release"]
    /\ UNCHANGED <<lock, aside, req, idx, success_count, error_count, resp, before, ops>>

\* Mutant: any failed item makes the batch an overall failure
BatchReport_AnyErrorFails(s, e, n) ==
    IF e = 0
    THEN [Resp(TRUE, "processed_all") EXCEPT !.n = n]
    ELSE [Resp(FALSE, "failed_to_process_any") EXCEPT !.e = e]

\* The report of a batch from its counters
BatchReport(s, e, n) ==
    IF e = 0
    THEN [Resp(TRUE, "processed_all") EXCEPT !.n = n]
    ELSE IF s > 0
    THEN [Resp(TRUE, "processed_some") EXCEPT !.s = s, !.n = n, !.e = e]
    ELSE [Resp(FALSE, "failed_to_process_any") EXCEPT !.e = e]

\* drop(graph_manager), then the report
BatchRelease(r) ==
    /\ pc[r] = "b_release"
    /\ DropGuard(r)
    /\ Return(r, BatchReport(success_count[r], error_count[r], Len(req[r].items)))
    /\ UNCHANGED <<store, aside, ops>>

(* ------------------------------------------------------------------ *)
(* GET /sync/status: get_sync_status                                    *)
(* ------------------------------------------------------------------ *)

\* axum's Json extractor hands over the parsed request
StatusArrive(r) ==
    /\ Arrives(r)
    /\ \E q \in StatusRequests : Admit(r, q, "q_lock")
    /\ UNCHANGED <<store, lock, aside>>

StatusLock(r) ==
    /\ pc[r] = "q_lock"
    /\ LockGraphManager(r)
    /\ Goto(r, "q_read")
    /\ UNCHANGED <<store, aside, ops>>

\* if state.force_full_sync { .. } else if state.force_incremental_sync { .. }
ForceOverlay(status, full, incremental) ==
    IF full
    THEN [status EXCEPT !.full_sync_needed = TRUE,
                        !.incremental_sync_needed = TRUE,
                        !.true_full_sync_needed = TRUE,
                        !.force_full_sync = TRUE]
    ELSE IF incremental
    THEN [status EXCEPT !.full_sync_needed = TRUE,
                        !.incremental_sync_needed = TRUE,
                        !.force_incremental_sync = TRUE]
    ELSE status

\* graph_manager.get_sync_status(..), drop(graph_manager), the force
\* overlay, the JSON value
StatusRead(r) ==
    /\ pc[r] = "q_read"
    /\ Return(r, ForceOverlay(SyncStatus(graph, edges, lastFull, now),
                              force_full_sync, force_incremental_sync))
    /\ DropGuard(r)
    /\ UNCHANGED <<store, aside, ops>>

(* ------------------------------------------------------------------ *)
(* PATCH /sync: update_sync_timestamp                                   *)
(* ------------------------------------------------------------------ *)

\* axum's Json extractor hands over the parsed request
SyncArrive(r) ==
    /\ Arrives(r)
    /\ \E q \in SyncRequests : Admit(r, q, "t_lock")
    /\ UNCHANGED <<store, lock, aside>>

SyncLock(r) ==
    /\ pc[r] = "t_lock"
    /\ LockGraphManager(r)
    /\ Goto(r, "t_apply")
    /\ UNCHANGED <<store, aside, ops>>

\* Mutant: a body without sync_type is taken for a full sync
default_sync_type_Full == "full"

\* fn default_sync_type() -> String
default_sync_type == "incremental"

\* UpdateSyncRequest as serde builds it: #[serde(default = "default_sync_type")]
RequestSyncType(body) ==
    IF body.sync_type = "absent" THEN default_sync_type ELSE body.sync_type

\* Mutant: the arms of the match call the update of the other kind
SyncApply_ArmsSwapped(r) ==
    /\ pc[r] = "t_apply"
    /\ IF RequestSyncType(req[r]) \in {"incremental", "full"}
       THEN \E ok \in BOOLEAN :
               /\ GM_UpdateSyncTimestamp(IF RequestSyncType(req[r]) = "full"
                                          THEN "incremental" ELSE "full", ok)
               /\ Return(r, IF ok THEN Resp(TRUE, "timestamp_updated")
                            ELSE Resp(FALSE, "error_updating_timestamp"))
       ELSE /\ Return(r, Resp(FALSE, "invalid_sync_type"))
            /\ UNCHANGED store
    /\ DropGuard(r)
    /\ UNCHANGED <<aside, ops>>

\* match request.sync_type.as_str() { .. }, the response; the guard drops
\* when the handler returns
SyncApply(r) ==
    /\ pc[r] = "t_apply"
    /\ IF RequestSyncType(req[r]) \in {"incremental", "full"}
       THEN \E ok \in BOOLEAN :
               /\ GM_UpdateSyncTimestamp(RequestSyncType(req[r]), ok)
               /\ Return(r, IF ok THEN Resp(TRUE, "timestamp_updated")
                            ELSE Resp(FALSE, "error_updating_timestamp"))
       ELSE /\ Return(r, Resp(FALSE, "invalid_sync_type"))
            /\ UNCHANGED store
    /\ DropGuard(r)
    /\ UNCHANGED <<aside, ops>>

(* ------------------------------------------------------------------ *)
(* POST /sync/verify: verify_pkm_ids                                    *)
(* ------------------------------------------------------------------ *)

\* axum's Json extractor hands over the parsed request
VerifyArrive(r) ==
    /\ Arrives(r)
    /\ \E q \in VerifyRequests : Admit(r, q, "v_lock")
    /\ UNCHANGED <<store, lock, aside>>

VerifyLock(r) ==
    /\ pc[r] = "v_lock"
    /\ LockGraphManager(r)
    /\ Goto(r, "v_apply")
    /\ UNCHANGED <<store, aside, ops>>

\* Mutant: a pass that archives nothing is reported as an error
VerifyRespond_ZeroIsError(result) ==
    IF result.ok /\ result.archived_count > 0
    THEN [Resp(TRUE, "archived") EXCEPT !.n = result.archived_count]
    ELSE Resp(FALSE, "error_during_verification")

\* match .. { Ok((archived_count, message)) => success: true, message;
\*            Err(e) => success: false }
VerifyRespond(result) ==
    IF result.ok
    THEN [Resp(TRUE, "archived") EXCEPT !.n = result.archived_count]
    ELSE Resp(FALSE, "error_during_verification")

\* The handler's body with the two arguments it hands to the GraphManager;
\* the guard drops when the handler returns
VerifyCall(r, pages, blocks) ==
    /\ pc[r] = "v_apply"
    /\ \E ok \in BOOLEAN :
          /\ GM_VerifyAndArchive(pages, blocks, ok)
          /\ Return(r, VerifyRespond(VerifyResult(pages, blocks, ok)))
    /\ DropGuard(r)
    /\ UNCHANGED <<aside, ops>>

\* Mutant: the two lists are handed over in the wrong order
VerifyPkmIds_Swapped(r) ==
    VerifyCall(r, req[r].blocks, req[r].pages)

\* graph_manager.verify_and_archive_missing_nodes(&verification.pages,
\* &verification.blocks)
VerifyPkmIds(r) ==
    VerifyCall(r, req[r].pages, req[r].blocks)

Next ==
    \/ \E r \in Req : SingleParse(r)
    \/ \E r \in Req : SingleLock(r)
    \/ \E r \in Req : SingleApply(r)
    \/ \E r \in Req : BatchParse(r)
    \/ \E r \in Req : BatchLock(r)
    \/ \E r \in Req : BatchDisableAutoSave(r)
    \/ \E r \in Req : BatchItem(r)
    \/ \E r \in Req : BatchEnableAutoSave(r)
    \/ \E r \in Req : BatchSave(r)
    \/ \E r \in Req : BatchRelease(r)
    \/ \E r \in Req : StatusArrive(r)
    \/ \E r \in Req : StatusLock(r)
    \/ \E r \in Req : StatusRead(r)
    \/ \E r \in Req : SyncArrive(r)
    \/ \E r \in Req : SyncLock(r)
    \/ \E r \in Req : SyncApply(r)
    \/ \E r \in Req : VerifyArrive(r)
    \/ \E r \in Req : VerifyLock(r)
    \/ \E r \in Req : VerifyPkmIds(r)

Spec == Init /\ [][Next]_vars

(* ------------------------------------------------------------------ *)
(* The server started on the data directory of an earlier run, its      *)
(* requests arriving one after the other                                *)
(* ------------------------------------------------------------------ *)

\* The graphs an earlier run can have left in the data directory
LoadedGraphs == [NodeKeys -> {"absent", "active", "archived"}]

\* The archive directory that goes with a loaded graph: one file of an
\* earlier reconciliation holding its archived nodes
LoadedArchives(g) ==
    LET gone == {k \in NodeKeys : g[k] = "archived"}
    IN  IF gone = {} THEN << >> ELSE <<ArchiveFile(gone, 0)>>

\* GraphManager::new(data_dir) loading what is there
InitLoaded ==
    /\ graph \in LoadedGraphs
    /\ props = DefaultProps(graph)
    /\ edges = {}
    /\ placeholder_pages = FALSE
    /\ autoSave = TRUE
    /\ lastFull = Never
    /\ lastIncr = Never
    /\ disk = Snapshot(graph, props, edges, Never, Never)
    /\ archives = LoadedArchives(graph)
    /\ lock = None
    /\ waitq = << >>
    /\ LibraryUnused
    /\ now = 0
    /\ pc = [r \in Req |-> "idle"]
    /\ req = [r \in Req |-> NoReq]
    /\ idx = [r \in Req |-> 0]
    /\ success_count = [r \in Req |-> 0]
    /\ error_count = [r \in Req |-> 0]
    /\ resp = [r \in Req |-> NoResp]
    /\ writes = [r \in Req |-> 0]
    /\ saveFailed = [r \in Req |-> FALSE]
    /\ before = [r \in Req |-> EmptyGraph]
    /\ ops = 0
    /\ force_full_sync = FALSE
    /\ force_incremental_sync = FALSE
    /\ ServingForEver

\* The one task serving the requests of a client that awaits each response
OneAtATime == {"r1"}

NextLoaded ==
    \/ \E r \in OneAtATime : SingleParse(r)
    \/ \E r \in OneAtATime : SingleLock(r)
    \/ \E r \in OneAtATime : SingleApply(r)
    \/ \E r \in OneAtATime : BatchParse(r)
    \/ \E r \in OneAtATime : BatchLock(r)
    \/ \E r \in OneAtATime : BatchDisableAutoSave(r)
    \/ \E r \in OneAtATime : BatchItem(r)
    \/ \E r \in OneAtATime : BatchEnableAutoSave(r)
    \/ \E r \in OneAtATime : BatchSave(r)
    \/ \E r \in OneAtATime : BatchRelease(r)
    \/ \E r \in OneAtATime : VerifyArrive(r)
    \/ \E r \in OneAtATime : VerifyLock(r)
    \/ \E r \in OneAtATime : VerifyPkmIds(r)

SpecLoaded == InitLoaded /\ [][NextLoaded]_vars

(* ------------------------------------------------------------------ *)
(* The store with references and properties: payloads that name parent  *)
(* pages and differ in content, one request at a time                   *)
(* ------------------------------------------------------------------ *)

\* The stores an earlier run can have left: nothing; the page "a"; the
\* block "b" with its reference to the page "a", which a reconciliation
\* archived since
LoadedStores ==
    LET page == <<"page", "a">>
        block == <<"block", "b">>
        onePage == [EmptyGraph EXCEPT ![page] = "active"]
        orphan == [EmptyGraph EXCEPT ![page] = "archived", ![block] = "active"]
    IN  {[graph |-> EmptyGraph, edges |-> {}, archives |-> << >>],
         [graph |-> onePage, edges |-> {}, archives |-> << >>],
         [graph |-> orphan, edges |-> {<<block, page>>},
          archives |-> <<ArchiveFile({page}, 0)>>]}

\* GraphManager::new(data_dir) of either kind of store, on an empty data
\* directory or on one with a page
InitRefs ==
    /\ \E loaded \in LoadedStores :
          /\ graph = loaded.graph
          /\ edges = loaded.edges
          /\ archives = loaded.archives
    /\ props = DefaultProps(graph)
    /\ placeholder_pages \in BOOLEAN
    /\ autoSave = TRUE
    /\ lastFull = Never
    /\ lastIncr = Never
    /\ disk = Snapshot(graph, props, edges, Never, Never)
    /\ lock = None
    /\ waitq = << >>
    /\ LibraryUnused
    /\ now = 0
    /\ pc = [r \in Req |-> "idle"]
    /\ req = [r \in Req |-> NoReq]
    /\ idx = [r \in Req |-> 0]
    /\ success_count = [r \in Req |-> 0]
    /\ error_count = [r \in Req |-> 0]
    /\ resp = [r \in Req |-> NoResp]
    /\ writes = [r \in Req |-> 0]
    /\ saveFailed = [r \in Req |-> FALSE]
    /\ before = [r \in Req |-> EmptyGraph]
    /\ ops = 0
    /\ force_full_sync = FALSE
    /\ force_incremental_sync = FALSE
    /\ ServingForEver

NextRefs ==
    \/ \E r \in OneAtATime : SingleParseOf(r, RichSingleRequests)
    \/ \E r \in OneAtATime : SingleLock(r)
    \/ \E r \in OneAtATime : SingleApply(r)
    \/ \E r \in OneAtATime : BatchParseOf(r, RichBatchRequests)
    \/ \E r \in OneAtATime : BatchLock(r)
    \/ \E r \in OneAtATime : BatchDisableAutoSave(r)
    \/ \E r \in OneAtATime : BatchItem(r)
    \/ \E r \in OneAtATime : BatchEnableAutoSave(r)
    \/ \E r \in OneAtATime : BatchSave(r)
    \/ \E r \in OneAtATime : BatchRelease(r)
    \/ \E r \in OneAtATime : VerifyArrive(r)
    \/ \E r \in OneAtATime : VerifyLock(r)
    \/ \E r \in OneAtATime : VerifyPkmIds(r)
    \/ \E r \in OneAtATime : StatusArrive(r)
    \/ \E r \in OneAtATime : StatusLock(r)
    \/ \E r \in OneAtATime : StatusRead(r)

SpecRefs == InitRefs /\ [][NextRefs]_vars

(* ------------------------------------------------------------------ *)
(* The order at the Mutex: single ingests on both request slots, the    *)
(* requests that lock() blocks recorded in the order they began to wait *)
(* ------------------------------------------------------------------ *)

\* handle_block_data / handle_page_data up to lock(), one of MaxCalls
\* requests
CallArrives(r) ==
    /\ pc[r] \in {"idle", "done"}
    /\ ops < MaxCalls
    /\ ops' = ops + 1
    /\ \E q \in SingleRequests :
          IF ~q.parses
          THEN Return(r, Resp(FALSE, "could_not_parse"))
          ELSE IF q.items[1].id = ""
          THEN Return(r, Resp(FALSE, "id_is_empty"))
          ELSE Admit(r, q, "s_lock")
    /\ UNCHANGED <<store, lock, aside>>

\* lock() finds the Mutex held: the thread parks and waits
Blocks(r) ==
    /\ pc[r] = "s_lock"
    /\ lock # None
    /\ \A i \in 1..Len(waitq) : waitq[i] # r
    /\ waitq' = Append(waitq, r)
    /\ UNCHANGED <<store, lock, handlers, ops, process, library>>

\* The waiting requests without r
Woken(r) == SelectSeq(waitq, LAMBDA x : x # r)

\* lock() returns the guard, to a thread that waited or to one that just
\* called
Acquires(r) ==
    /\ pc[r] = "s_lock"
    /\ LockGraphManager(r)
    /\ waitq' = Woken(r)
    /\ Goto(r, "s_apply")
    /\ UNCHANGED <<store, ops, process, library>>

InitFifo == Init

NextFifo ==
    \/ \E r \in Req : CallArrives(r)
    \/ \E r \in Req : Blocks(r)
    \/ \E r \in Req : Acquires(r)
    \/ \E r \in Req : SingleApply(r)

SpecFifo == InitFifo /\ [][NextFifo]_vars

\* lock() returns to r in this step
Enters(r) == pc[r] = "s_lock" /\ pc'[r] = "s_apply"

\* C27: the lock is served in waiting order: a request enters the store only
\* when no request began to wait for the lock before it, so of two requests
\* the one that waited first enters first.
C27_ServedInWaitingOrder ==
    [][\A r \in Req :
          Enters(r) => \/ waitq = << >>
                       \/ Head(waitq) = r]_vars

(* ------------------------------------------------------------------ *)
(* POST /data, "plugin_initialized" and "sync_complete": receive_data   *)
(* ------------------------------------------------------------------ *)

\* tx.send(()): the value reaches the channel unless the Receiver is gone,
\* in which case send returns Err, which the handler ignores
Send(ch) == IF ch.rx = "alive" THEN [ch EXCEPT !.sent = @ + 1] ELSE ch

\* Mutant: the handler leaves the Sender in its Option
TakeSender_Keeps(tx) == tx

\* tx_guard.take(): what is left in the Option
TakeSender(tx) == "none"

\* Some("plugin_initialized") => { if let Some(tx) = tx_guard.take() { send } }
\* under the Mutex of plugin_init_tx, then the acknowledgement
PluginInitialized(r) ==
    /\ Arrives(r)
    /\ IF plugin_init_tx = "some"
       THEN /\ plugin_init_tx' = TakeSender(plugin_init_tx)
            /\ init_chan' = Send(init_chan)
       ELSE UNCHANGED <<plugin_init_tx, init_chan>>
    /\ Return(r, Resp(TRUE, "plugin_initialization_acknowledged"))
    /\ UNCHANGED <<store, lock, waitq, library, now, force_full_sync, force_incremental_sync,
                   main_pc, duration_secs, logseq_child, sync_complete_tx,
                   sync_chan, remaining, waited, server_info, exit_reason>>

\* Mutant: the signal is sent only to a main that is already waiting for it
SyncComplete_OnlyWhenAwaited(r) ==
    /\ Arrives(r)
    /\ IF sync_complete_tx = "some"
       THEN /\ sync_complete_tx' = TakeSender(sync_complete_tx)
            /\ sync_chan' = IF main_pc = "await_sync" THEN Send(sync_chan) ELSE sync_chan
       ELSE UNCHANGED <<sync_complete_tx, sync_chan>>
    /\ Return(r, Resp(TRUE, "sync_completion_acknowledged"))
    /\ UNCHANGED <<store, lock, waitq, library, now, force_full_sync, force_incremental_sync,
                   main_pc, duration_secs, logseq_child, plugin_init_tx,
                   init_chan, remaining, waited, server_info, exit_reason>>

\* Some("sync_complete") => { if let Some(tx) = tx_guard.take() { send } }
\* under the Mutex of sync_complete_tx, then the acknowledgement
SyncComplete(r) ==
    /\ Arrives(r)
    /\ IF sync_complete_tx = "some"
       THEN /\ sync_complete_tx' = TakeSender(sync_complete_tx)
            /\ sync_chan' = Send(sync_chan)
       ELSE UNCHANGED <<sync_complete_tx, sync_chan>>
    /\ Return(r, Resp(TRUE, "sync_completion_acknowledged"))
    /\ UNCHANGED <<store, lock, waitq, library, now, force_full_sync, force_incremental_sync,
                   main_pc, duration_secs, logseq_child, plugin_init_tx,
                   init_chan, remaining, waited, server_info, exit_reason>>

(* ------------------------------------------------------------------ *)
(* main, run_with_duration, run_server_with_timeout, cleanup_and_exit   *)
(* ------------------------------------------------------------------ *)

\* What main's steps leave alone: the store, the handlers, the clock
served == <<store, lock, waitq, library, handlers, ops, now, force_full_sync,
            force_incremental_sync>>

\* The positions of main at which the server is polled and takes requests
Serving == main_pc \in {"await_init", "countdown", "await_sync", "timeout", "serve"}

\* The process has not ended: its handler tasks still run
Alive == main_pc # "exited"

\* main up to the listener: AppState, the Ctrl-C handler, write_server_info
Start ==
    /\ main_pc = "start"
    /\ main_pc' = "launch"
    /\ server_info' = TRUE
    /\ UNCHANGED <<served, duration_secs, logseq_child, plugin_init_tx,
                   sync_complete_tx, init_chan, sync_chan, remaining, waited,
                   exit_reason>>

\* launch_logseq(&config.logseq)?, and with a child the channel of plugin
\* initialization, its Sender stored in AppState
LaunchLogseq ==
    /\ main_pc = "launch"
    /\ main_pc' = "run"
    /\ \E launched \in BOOLEAN :
          IF launched
          THEN /\ logseq_child' = "running"
               /\ plugin_init_tx' = "some"
               /\ init_chan' = NewChannel
          ELSE UNCHANGED <<logseq_child, plugin_init_tx, init_chan>>
    /\ UNCHANGED <<served, duration_secs, sync_complete_tx, sync_chan,
                   remaining, waited, server_info, exit_reason>>

\* Mutant: the run without a duration is timed like the run with one
Run_TimerAnyway ==
    /\ main_pc = "run"
    /\ IF duration_secs /\ init_chan.rx = "alive"
       THEN /\ main_pc' = "await_init"
            /\ sync_complete_tx' = "some"
            /\ sync_chan' = NewChannel
            /\ UNCHANGED remaining
       ELSE /\ main_pc' = "timeout"
            /\ remaining' = DurationSecs
            /\ UNCHANGED <<sync_complete_tx, sync_chan>>
    /\ UNCHANGED <<served, duration_secs, logseq_child, plugin_init_tx,
                   init_chan, waited, server_info, exit_reason>>

\* Mutant: the server is served before the sync channel is made, whose
\* Sender is therefore not in AppState when the first requests come
Run_SyncSenderLate ==
    /\ main_pc = "run"
    /\ IF duration_secs /\ init_chan.rx = "alive"
       THEN /\ main_pc' = "await_init"
            /\ UNCHANGED <<sync_complete_tx, sync_chan, remaining>>
       ELSE IF duration_secs
       THEN /\ main_pc' = "timeout"
            /\ remaining' = DurationSecs
            /\ UNCHANGED <<sync_complete_tx, sync_chan>>
       ELSE /\ main_pc' = "serve"
            /\ UNCHANGED <<sync_complete_tx, sync_chan, remaining>>
    /\ UNCHANGED <<served, duration_secs, logseq_child, plugin_init_tx,
                   init_chan, waited, server_info, exit_reason>>

\* if let Some(duration) = duration_secs { .. } else { .. }: the way the
\* server is run; run_with_duration stores the Sender of sync completion
\* before it serves
Run ==
    /\ main_pc = "run"
    /\ IF duration_secs /\ init_chan.rx = "alive"
       THEN /\ main_pc' = "await_init"
            /\ sync_complete_tx' = "some"
            /\ sync_chan' = NewChannel
            /\ UNCHANGED remaining
       ELSE IF duration_secs
       THEN /\ main_pc' = "timeout"
            /\ remaining' = DurationSecs
            /\ UNCHANGED <<sync_complete_tx, sync_chan>>
       ELSE /\ main_pc' = "serve"
            /\ UNCHANGED <<sync_complete_tx, sync_chan, remaining>>
    /\ UNCHANGED <<served, duration_secs, logseq_child, plugin_init_tx,
                   init_chan, waited, server_info, exit_reason>>

\* Mutant: the countdown starts without awaiting the channel
InitReceived_NoWait ==
    /\ main_pc = "await_init"
    /\ main_pc' = "countdown"
    /\ remaining' = DurationSecs
    /\ UNCHANGED <<served, duration_secs, logseq_child, plugin_init_tx,
                   sync_complete_tx, init_chan, sync_chan, waited, server_info,
                   exit_reason>>

\* match plugin_initialized.await { Ok(_) => sleep(duration_secs) .. }; the
\* Err arm needs the Sender dropped unsent, which AppState never does
InitReceived ==
    /\ main_pc = "await_init"
    /\ init_chan.sent > init_chan.rcvd
    /\ init_chan' = [init_chan EXCEPT !.rcvd = @ + 1, !.rx = "dropped"]
    /\ main_pc' = "countdown"
    /\ remaining' = DurationSecs
    /\ UNCHANGED <<served, duration_secs, logseq_child, plugin_init_tx,
                   sync_complete_tx, sync_chan, waited, server_info, exit_reason>>

\* tokio::spawn(async move { match rx.await { .. } }) of the run without
\* duration
MonitorInit ==
    /\ main_pc = "serve"
    /\ init_chan.sent > init_chan.rcvd
    /\ init_chan' = [init_chan EXCEPT !.rcvd = @ + 1, !.rx = "dropped"]
    /\ UNCHANGED <<served, main_pc, duration_secs, logseq_child, plugin_init_tx,
                   sync_complete_tx, sync_chan, remaining, waited, server_info,
                   exit_reason>>

\* A second of tokio::time::sleep(Duration::from_secs(duration_secs))
Second ==
    /\ main_pc \in {"countdown", "timeout"}
    /\ remaining > 0
    /\ remaining' = remaining - 1
    /\ UNCHANGED <<served, main_pc, duration_secs, logseq_child, plugin_init_tx,
                   sync_complete_tx, init_chan, sync_chan, waited, server_info,
                   exit_reason>>

\* Mutant: at the end of the countdown main shuts down without the sync wait
CountdownExpired_SkipsWait ==
    /\ main_pc = "countdown"
    /\ remaining = 0
    /\ main_pc' = "shutdown"
    /\ waited' = 0
    /\ UNCHANGED <<served, duration_secs, logseq_child, plugin_init_tx,
                   sync_complete_tx, init_chan, sync_chan, remaining,
                   server_info, exit_reason>>

\* "Duration limit reached, checking for active sync..."
CountdownExpired ==
    /\ main_pc = "countdown"
    /\ remaining = 0
    /\ main_pc' = "await_sync"
    /\ waited' = 0
    /\ UNCHANGED <<served, duration_secs, logseq_child, plugin_init_tx,
                   sync_complete_tx, init_chan, sync_chan, remaining,
                   server_info, exit_reason>>

\* Mutant: the run without a client also waits for the sync signal
TimeoutExpired_AwaitsSync ==
    /\ main_pc = "timeout"
    /\ remaining = 0
    /\ main_pc' = "await_sync"
    /\ UNCHANGED <<served, duration_secs, logseq_child, plugin_init_tx,
                   sync_complete_tx, init_chan, sync_chan, remaining, waited,
                   server_info, exit_reason>>

\* run_server_with_timeout: the sleep arm of its select!
TimeoutExpired ==
    /\ main_pc = "timeout"
    /\ remaining = 0
    /\ main_pc' = "shutdown"
    /\ UNCHANGED <<served, duration_secs, logseq_child, plugin_init_tx,
                   sync_complete_tx, init_chan, sync_chan, remaining, waited,
                   server_info, exit_reason>>

\* select! { _ = sync_rx => .. }
SyncReceived ==
    /\ main_pc = "await_sync"
    /\ sync_chan.sent > sync_chan.rcvd
    /\ sync_chan' = [sync_chan EXCEPT !.rcvd = @ + 1, !.rx = "dropped"]
    /\ main_pc' = "shutdown"
    /\ UNCHANGED <<served, duration_secs, logseq_child, plugin_init_tx,
                   sync_complete_tx, init_chan, remaining, waited, server_info,
                   exit_reason>>

\* A second of the sleep(Duration::from_secs(10)) arm: the select! stays
\* pending, and its sleep goes on, only while sync_rx has no value to give
GraceSecond ==
    /\ main_pc = "await_sync"
    /\ waited < GraceSecs
    /\ sync_chan.sent = sync_chan.rcvd
    /\ waited' = waited + 1
    /\ UNCHANGED <<served, main_pc, duration_secs, logseq_child, plugin_init_tx,
                   sync_complete_tx, init_chan, sync_chan, remaining,
                   server_info, exit_reason>>

\* Mutant: the wait ends on the signal only, also after the 10 seconds
GraceTimeout_SignalOnly ==
    /\ main_pc = "await_sync"
    /\ waited = GraceSecs
    /\ sync_chan.sent > sync_chan.rcvd
    /\ sync_chan' = [sync_chan EXCEPT !.rx = "dropped"]
    /\ main_pc' = "shutdown"
    /\ UNCHANGED <<served, duration_secs, logseq_child, plugin_init_tx,
                   sync_complete_tx, init_chan, remaining, waited, server_info,
                   exit_reason>>

\* select! { _ = tokio::time::sleep(Duration::from_secs(10)) => .. }: the
\* other arm's sync_rx is dropped with the select!
GraceTimeout ==
    /\ main_pc = "await_sync"
    /\ waited = GraceSecs
    /\ sync_chan' = [sync_chan EXCEPT !.rx = "dropped"]
    /\ main_pc' = "shutdown"
    /\ UNCHANGED <<served, duration_secs, logseq_child, plugin_init_tx,
                   sync_complete_tx, init_chan, remaining, waited, server_info,
                   exit_reason>>

\* cleanup_and_exit: child.kill() of a launched Logseq, remove_file of the
\* server info file; nothing else
CleanupAndExit ==
    /\ logseq_child' = IF logseq_child = "running" THEN "killed" ELSE logseq_child
    /\ server_info' = FALSE

\* shutdown_tx.send(()), the select! of run_with_duration returns and drops
\* the server, main calls cleanup_and_exit and returns
Shutdown ==
    /\ main_pc = "shutdown"
    /\ CleanupAndExit
    /\ main_pc' = "exited"
    /\ exit_reason' = "duration"
    /\ UNCHANGED <<served, duration_secs, plugin_init_tx, sync_complete_tx,
                   init_chan, sync_chan, remaining, waited>>

\* ctrlc::set_handler(move || { cleanup_and_exit(..); exit(0); })
CtrlC ==
    /\ main_pc \notin {"start", "exited"}
    /\ CleanupAndExit
    /\ main_pc' = "exited"
    /\ exit_reason' = "ctrl_c"
    /\ UNCHANGED <<served, duration_secs, plugin_init_tx, sync_complete_tx,
                   init_chan, sync_chan, remaining, waited>>

\* main from its first line, with or without a duration
InitLife ==
    /\ graph = EmptyGraph
    /\ props = NoProps
    /\ edges = {}
    /\ placeholder_pages = FALSE
    /\ autoSave = TRUE
    /\ lastFull = Never
    /\ lastIncr = Never
    /\ disk = Snapshot(EmptyGraph, NoProps, {}, Never, Never)
    /\ archives = << >>
    /\ lock = None
    /\ waitq = << >>
    /\ LibraryUnused
    /\ now = 0
    /\ pc = [r \in Req |-> "idle"]
    /\ req = [r \in Req |-> NoReq]
    /\ idx = [r \in Req |-> 0]
    /\ success_count = [r \in Req |-> 0]
    /\ error_count = [r \in Req |-> 0]
    /\ resp = [r \in Req |-> NoResp]
    /\ writes = [r \in Req |-> 0]
    /\ saveFailed = [r \in Req |-> FALSE]
    /\ before = [r \in Req |-> EmptyGraph]
    /\ ops = 0
    /\ force_full_sync = FALSE
    /\ force_incremental_sync = FALSE
    /\ main_pc = "start"
    /\ duration_secs \in BOOLEAN
    /\ logseq_child = "none"
    /\ plugin_init_tx = "none"
    /\ sync_complete_tx = "none"
    /\ init_chan = NoChannel
    /\ sync_chan = NoChannel
    /\ remaining = 0
    /\ waited = 0
    /\ server_info = FALSE
    /\ exit_reason = "none"

NextLife ==
    \/ Start
    \/ LaunchLogseq
    \/ Run
    \/ InitReceived
    \/ MonitorInit
    \/ Second
    \/ CountdownExpired
    \/ TimeoutExpired
    \/ SyncReceived
    \/ GraceSecond
    \/ GraceTimeout
    \/ Shutdown
    \/ CtrlC
    \/ \E r \in Req : Serving /\ PluginInitialized(r)
    \/ \E r \in Req : Serving /\ SyncComplete(r)
    \/ \E r \in Req : Serving /\ SingleParse(r)
    \/ \E r \in Req : Alive /\ SingleLock(r)
    \/ \E r \in Req : Alive /\ SingleApply(r)

SpecLife == InitLife /\ [][NextLife]_vars

\* The tokio timer advances, a sleep whose time has come completes, and a
\* Receiver that holds a value wakes the select! that awaits it
SpecLifeFair ==
    /\ SpecLife
    /\ WF_vars(GraceSecond)
    /\ WF_vars(GraceTimeout)
    /\ WF_vars(SyncReceived)

\* As SpecLifeFair, and the sleep of the duration runs down, the select!
\* of run_server_with_timeout returns when it is over, and main goes on to
\* cleanup_and_exit
SpecLifeTimed ==
    /\ SpecLifeFair
    /\ WF_vars(Second)
    /\ WF_vars(TimeoutExpired)
    /\ WF_vars(Shutdown)

(* ------------------------------------------------------------------ *)
(* receive_data as a whole: the match on data.type_, with the status    *)
(* query and the log endpoint, served by a process in any mode          *)
(* ------------------------------------------------------------------ *)

\* The type tags receive_data matches
KnownTags == {"block", "blocks", "block_batch", "page", "pages", "page_batch",
              "plugin_initialized", "sync_complete"}

\* data.type_ of a POST /data: absent, a matched tag, or any other string
TypeTags == KnownTags \cup {"absent", "db_change", "Block"}

\* Mutant: the tag is matched without regard to case
Route_IgnoresCase(tag) ==
    CASE tag \in {"block", "Block"} -> "block"
      [] tag \in {"block_batch", "blocks"} -> "blocks"
      [] tag = "page" -> "page"
      [] tag \in {"page_batch", "pages"} -> "pages"
      [] tag = "plugin_initialized" -> "plugin_initialized"
      [] tag = "sync_complete" -> "sync_complete"
      [] OTHER -> "default"

\* match data.type_.as_deref() { .. }: the arm taken
Route(tag) ==
    CASE tag = "block" -> "block"
      [] tag \in {"block_batch", "blocks"} -> "blocks"
      [] tag = "page" -> "page"
      [] tag \in {"page_batch", "pages"} -> "pages"
      [] tag = "plugin_initialized" -> "plugin_initialized"
      [] tag = "sync_complete" -> "sync_complete"
      [] OTHER -> "default"

\* POST /data: axum hands the PKMData to receive_data
ReceiveData(r) ==
    /\ Arrives(r)
    /\ \E tag \in TypeTags : Admit(r, [NoReq EXCEPT !.type = tag], "d_route")
    /\ UNCHANGED <<store, lock, aside>>

\* The arm of the match: the single and batch handlers up to their lock(),
\* the two signal arms, and handle_default_data for every other tag
Dispatch(r) ==
    /\ pc[r] = "d_route"
    /\ LET arm == Route(req[r].type)
       IN  IF arm \in {"block", "page"}
           THEN /\ \E q \in SingleRequests :
                      /\ q.type = arm
                      /\ IF ~q.parses
                         THEN Return(r, Resp(FALSE, "could_not_parse"))
                         ELSE IF q.items[1].id = ""
                         THEN Return(r, Resp(FALSE, "id_is_empty"))
                         ELSE Admit(r, q, "s_lock")
                /\ UNCHANGED <<store, lifecycle>>
           ELSE IF arm \in {"blocks", "pages"}
           THEN /\ \E q \in BatchRequests :
                      /\ q.type = arm
                      /\ IF ~q.parses
                         THEN Return(r, Resp(FALSE, "could_not_parse"))
                         ELSE Admit(r, q, "b_lock")
                /\ UNCHANGED <<store, lifecycle>>
           ELSE IF arm = "plugin_initialized"
           THEN /\ IF plugin_init_tx = "some"
                   THEN /\ plugin_init_tx' = TakeSender(plugin_init_tx)
                        /\ init_chan' = Send(init_chan)
                   ELSE UNCHANGED <<plugin_init_tx, init_chan>>
                /\ Return(r, Resp(TRUE, "plugin_initialization_acknowledged"))
                /\ UNCHANGED <<store, main_pc, duration_secs, logseq_child,
                               sync_complete_tx, sync_chan, remaining, waited,
                               server_info, exit_reason>>
           ELSE IF arm = "sync_complete"
           THEN /\ IF sync_complete_tx = "some"
                   THEN /\ sync_complete_tx' = TakeSender(sync_complete_tx)
                        /\ sync_chan' = Send(sync_chan)
                   ELSE UNCHANGED <<sync_complete_tx, sync_chan>>
                /\ Return(r, Resp(TRUE, "sync_completion_acknowledged"))
                /\ UNCHANGED <<store, main_pc, duration_secs, logseq_child,
                               plugin_init_tx, init_chan, remaining, waited,
                               server_info, exit_reason>>
           ELSE /\ Return(r, Resp(TRUE, "data_received"))
                /\ UNCHANGED <<store, lifecycle>>
    /\ UNCHANGED <<lock, waitq, library, ops, now, force_full_sync, force_incremental_sync>>

\* POST /log: receive_log writes the message to the log and acknowledges
ReceiveLog(r) ==
    /\ Arrives(r)
    /\ Return(r, Resp(TRUE, "log_received"))
    /\ UNCHANGED <<store, lock, aside>>

InitFrame == InitLife

NextFrame ==
    \/ Start
    \/ LaunchLogseq
    \/ Run
    \/ InitReceived
    \/ MonitorInit
    \/ Second
    \/ CountdownExpired
    \/ TimeoutExpired
    \/ SyncReceived
    \/ GraceSecond
    \/ GraceTimeout
    \/ Shutdown
    \/ CtrlC
    \/ \E r \in OneAtATime : Serving /\ ReceiveData(r)
    \/ \E r \in OneAtATime : Alive /\ Dispatch(r)
    \/ \E r \in OneAtATime : Alive /\ SingleLock(r)
    \/ \E r \in OneAtATime : Alive /\ SingleApply(r)
    \/ \E r \in OneAtATime : Alive /\ BatchLock(r)
    \/ \E r \in OneAtATime : Alive /\ BatchDisableAutoSave(r)
    \/ \E r \in OneAtATime : Alive /\ BatchItem(r)
    \/ \E r \in OneAtATime : Alive /\ BatchEnableAutoSave(r)
    \/ \E r \in OneAtATime : Alive /\ BatchSave(r)
    \/ \E r \in OneAtATime : Alive /\ BatchRelease(r)
    \/ \E r \in OneAtATime : Serving /\ StatusArrive(r)
    \/ \E r \in OneAtATime : Alive /\ StatusLock(r)
    \/ \E r \in OneAtATime : Alive /\ StatusRead(r)
    \/ \E r \in OneAtATime : Serving /\ ReceiveLog(r)

SpecFrame == InitFrame /\ [][NextFrame]_vars

(* ------------------------------------------------------------------ *)
(* The Mutexes of AppState: every handler that takes the store lock,    *)
(* and the two signal arms of receive_data with the lock() of their     *)
(* Sender as a step of its own, in a server that serves for ever        *)
(* ------------------------------------------------------------------ *)

\* The Mutex of AppState a signal message locks
SenderLock(tag) ==
    IF tag = "plugin_initialized" THEN "plugin_init_tx" ELSE "sync_complete_tx"

\* POST /data with type_ "plugin_initialized" or "sync_complete"
SignalArrive(r) ==
    /\ Arrives(r)
    /\ \E tag \in {"plugin_initialized", "sync_complete"} :
          Admit(r, [NoReq EXCEPT !.type = tag, !.parses = TRUE], "x_lock")
    /\ UNCHANGED <<store, lock, aside>>

\* if let Ok(mut tx_guard) = state.plugin_init_tx.lock() (or
\* sync_complete_tx): the Mutex is free of every other handler
SignalLock(r) ==
    /\ pc[r] = "x_lock"
    /\ \A q \in Req : ~(pc[q] = "x_take" /\ req[q].type = req[r].type)
    /\ Goto(r, "x_take")
    /\ UNCHANGED <<store, lock, aside, ops>>

\* if let Some(tx) = tx_guard.take() { let _ = tx.send(()); }, the guard
\* dropped at the end of the if let, then the acknowledgement
SignalSend(r) ==
    /\ pc[r] = "x_take"
    /\ IF req[r].type = "plugin_initialized"
       THEN /\ IF plugin_init_tx = "some"
               THEN /\ plugin_init_tx' = TakeSender(plugin_init_tx)
                    /\ init_chan' = Send(init_chan)
               ELSE UNCHANGED <<plugin_init_tx, init_chan>>
            /\ Return(r, Resp(TRUE, "plugin_initialization_acknowledged"))
            /\ UNCHANGED <<sync_complete_tx, sync_chan>>
       ELSE /\ IF sync_complete_tx = "some"
               THEN /\ sync_complete_tx' = TakeSender(sync_complete_tx)
                    /\ sync_chan' = Send(sync_chan)
               ELSE UNCHANGED <<sync_complete_tx, sync_chan>>
            /\ Return(r, Resp(TRUE, "sync_completion_acknowledged"))
            /\ UNCHANGED <<plugin_init_tx, init_chan>>
    /\ UNCHANGED <<store, lock, waitq, library, ops, now, force_full_sync,
                   force_incremental_sync, main_pc, duration_secs, logseq_child,
                   remaining, waited, server_info, exit_reason>>

\* The Mutexes of AppState the handler of request r holds
LocksHeld(r) ==
    (IF lock = r THEN {"graph_manager"} ELSE {})
    \cup (IF pc[r] = "x_take" THEN {SenderLock(req[r].type)} ELSE {})

\* The positions at which a handler waits in a lock()
AtLock == {"s_lock", "b_lock", "q_lock", "t_lock", "v_lock", "x_lock"}

\* lock() returns to the handler of request r
Acquire(r) ==
    \/ SingleLock(r) \/ BatchLock(r) \/ StatusLock(r) \/ SyncLock(r)
    \/ VerifyLock(r) \/ SignalLock(r)

\* A step of the handler of request r that holds a lock
Proceed(r) ==
    \/ SingleApply(r) \/ BatchDisableAutoSave(r) \/ BatchItem(r)
    \/ BatchEnableAutoSave(r) \/ BatchSave(r) \/ BatchRelease(r)
    \/ StatusRead(r) \/ SyncApply(r) \/ VerifyPkmIds(r) \/ SignalSend(r)

\* The server of a run without duration that launched its client
InitLocks ==
    /\ graph = EmptyGraph
    /\ props = NoProps
    /\ edges = {}
    /\ placeholder_pages = FALSE
    /\ autoSave = TRUE
    /\ lastFull = Never
    /\ lastIncr = Never
    /\ disk = Snapshot(EmptyGraph, NoProps, {}, Never, Never)
    /\ archives = << >>
    /\ lock = None
    /\ waitq = << >>
    /\ LibraryUnused
    /\ now = 0
    /\ pc = [r \in Req |-> "idle"]
    /\ req = [r \in Req |-> NoReq]
    /\ idx = [r \in Req |-> 0]
    /\ success_count = [r \in Req |-> 0]
    /\ error_count = [r \in Req |-> 0]
    /\ resp = [r \in Req |-> NoResp]
    /\ writes = [r \in Req |-> 0]
    /\ saveFailed = [r \in Req |-> FALSE]
    /\ before = [r \in Req |-> EmptyGraph]
    /\ ops = 0
    /\ force_full_sync = FALSE
    /\ force_incremental_sync = FALSE
    /\ main_pc = "serve"
    /\ duration_secs = FALSE
    /\ logseq_child = "running"
    /\ plugin_init_tx = "some"
    /\ init_chan = NewChannel
    /\ sync_complete_tx = "none"
    /\ sync_chan = NoChannel
    /\ remaining = 0
    /\ waited = 0
    /\ server_info = TRUE
    /\ exit_reason = "none"

\* The single and batch requests of this server: blocks, every item with
\* the identifier "a"
LockSingleRequests ==
    {q \in SingleRequests :
        q.type = "block" /\ \A i \in 1..Len(q.items) : q.items[i].id = "a"}

LockBatchRequests ==
    {q \in BatchRequests :
        q.type = "blocks" /\ \A i \in 1..Len(q.items) : q.items[i].id = "a"}

NextLocks ==
    \/ \E r \in Req : SingleParseOf(r, LockSingleRequests)
    \/ \E r \in Req : BatchParseOf(r, LockBatchRequests)
    \/ \E r \in Req : StatusArrive(r)
    \/ \E r \in Req : SyncArrive(r)
    \/ \E r \in Req : VerifyArrive(r)
    \/ \E r \in Req : SignalArrive(r)
    \/ \E r \in Req : Acquire(r)
    \/ \E r \in Req : Proceed(r)
    \/ MonitorInit

SpecLocks == InitLocks /\ [][NextLocks]_vars

\* Fair scheduling: a handler that can take a step takes it, and a handler
\* whose lock() can return again and again gets the lock
SpecLocksFair ==
    /\ SpecLocks
    /\ \A r \in Req : WF_vars(Proceed(r)) /\ SF_vars(Acquire(r))

(* ------------------------------------------------------------------ *)
(* The sync state over time: the server started with any force flags,   *)
(* the clock running, its requests arriving one after the other         *)
(* ------------------------------------------------------------------ *)

\* An hour passes
Tick ==
    /\ now < MaxClock
    /\ now' = now + 1
    /\ UNCHANGED <<store, lock, waitq, library, handlers, ops, force_full_sync,
                   force_incremental_sync, lifecycle>>

\* main: Args::parse() decides the force flags of AppState
InitSync ==
    /\ graph = EmptyGraph
    /\ props = NoProps
    /\ edges = {}
    /\ placeholder_pages = FALSE
    /\ autoSave = TRUE
    /\ lastFull = Never
    /\ lastIncr = Never
    /\ disk = Snapshot(EmptyGraph, NoProps, {}, Never, Never)
    /\ archives = << >>
    /\ lock = None
    /\ waitq = << >>
    /\ LibraryUnused
    /\ now = 0
    /\ pc = [r \in Req |-> "idle"]
    /\ req = [r \in Req |-> NoReq]
    /\ idx = [r \in Req |-> 0]
    /\ success_count = [r \in Req |-> 0]
    /\ error_count = [r \in Req |-> 0]
    /\ resp = [r \in Req |-> NoResp]
    /\ writes = [r \in Req |-> 0]
    /\ saveFailed = [r \in Req |-> FALSE]
    /\ before = [r \in Req |-> EmptyGraph]
    /\ ops = 0
    /\ force_full_sync \in BOOLEAN
    /\ force_incremental_sync \in BOOLEAN
    /\ ServingForEver

NextSync ==
    \/ Tick
    \/ \E r \in OneAtATime : StatusArrive(r)
    \/ \E r \in OneAtATime : StatusLock(r)
    \/ \E r \in OneAtATime : StatusRead(r)
    \/ \E r \in OneAtATime : SyncArrive(r)
    \/ \E r \in OneAtATime : SyncLock(r)
    \/ \E r \in OneAtATime : SyncApply(r)
    \/ \E r \in OneAtATime : SingleParse(r)
    \/ \E r \in OneAtATime : SingleLock(r)
    \/ \E r \in OneAtATime : SingleApply(r)
    \/ \E r \in OneAtATime : BatchParse(r)
    \/ \E r \in OneAtATime : BatchLock(r)
    \/ \E r \in OneAtATime : BatchDisableAutoSave(r)
    \/ \E r \in OneAtATime : BatchItem(r)
    \/ \E r \in OneAtATime : BatchEnableAutoSave(r)
    \/ \E r \in OneAtATime : BatchSave(r)
    \/ \E r \in OneAtATime : BatchRelease(r)
    \/ \E r \in OneAtATime : VerifyArrive(r)
    \/ \E r \in OneAtATime : VerifyLock(r)
    \/ \E r \in OneAtATime : VerifyPkmIds(r)
    \/ \E r \in OneAtATime : PluginInitialized(r)
    \/ \E r \in OneAtATime : SyncComplete(r)

SpecSync == InitSync /\ [][NextSync]_vars

(* ------------------------------------------------------------------ *)
(* Properties                                                           *)
(* ------------------------------------------------------------------ *)

\* The positions of a batch between its lock() and its drop(graph_manager)
BatchInside == {"b_disable", "b_item", "b_save", "b_release"}

\* The positions of a handler blocked in lock()
Waiting == {"s_lock", "b_lock", "q_lock", "t_lock", "v_lock"}

\* The positions of the first n items of a batch that pass validation
ValidIn(items, n) == {i \in 1..n : Validate(items[i])}

\* The nodes named by the items at the positions I
KeysOf(kind, items, I) == {<<kind, items[i].id>> : i \in I}

\* C1: at most one handler (single ingest, batch, status, timestamp update,
\* reconciliation) is between its lock() and the drop of its guard, that
\* handler is the holder of the mutex, and the batch that has reached or
\* finished its save_graph call is still the holder.
C1_MutualExclusion ==
    \A r \in Req :
        InStore(r) => /\ lock = r
                      /\ \A q \in Req \ {r} : ~InStore(q)

\* A batch has written the graph file and still holds the mutex while
\* another request is blocked in lock()
C1_Witness ==
    \E r \in Req, q \in Req :
        /\ r # q
        /\ pc[r] = "b_release"
        /\ writes[r] = 1
        /\ lock = r
        /\ pc[q] \in Waiting

\* C2: while a batch is between its lock() and its drop(graph_manager), no
\* other handler enters the GraphManager, and every step that is not a step
\* of the batch leaves the graph, the auto-save flag, the sync state, the
\* graph file and the archives as they are: every other operation takes
\* effect before the batch's first item or after its final save.
C2_BatchAtomic ==
    [][\A r \in Req :
          pc[r] \in BatchInside =>
              /\ \A q \in Req \ {r} : pc'[q] \notin Inside
              /\ (pc'[r] = pc[r] /\ idx'[r] = idx[r]) => store' = store]_vars

\* A batch is between its first and its second item while a single-item
\* request is blocked in lock()
C2_Witness ==
    \E r \in Req, q \in Req :
        /\ r # q
        /\ pc[r] = "b_item"
        /\ idx[r] = 1
        /\ Len(req[r].items) = 2
        /\ pc[q] = "s_lock"

\* C3: when a batch of N items returns, success_count is the number of
\* items that passed validation and were applied, success_count plus
\* error_count is N, and the response is a success naming N when E = 0, a
\* success carrying S, N and E when S > 0 and E > 0, and a failure exactly
\* when S = 0 and E > 0.
C3_BatchAccounting ==
    [][\A r \in Req :
          (pc[r] = "b_release" /\ pc'[r] = "done") =>
              LET N == Len(req[r].items)
                  S == success_count[r]
                  E == error_count[r]
              IN  /\ S = Cardinality(ValidIn(req[r].items, N))
                  /\ S + E = N
                  /\ E = 0 => /\ resp'[r].success
                              /\ resp'[r].msg = "processed_all"
                              /\ resp'[r].n = N
                  /\ (S > 0 /\ E > 0) => /\ resp'[r].success
                                         /\ resp'[r].msg = "processed_some"
                                         /\ resp'[r].s = S
                                         /\ resp'[r].n = N
                                         /\ resp'[r].e = E
                  /\ ~resp'[r].success <=> (S = 0 /\ E > 0)]_vars

\* A batch of two items has returned the mixed report: one applied, one failed
C3_Witness ==
    \E r \in Req :
        /\ pc[r] = "done"
        /\ resp[r].msg = "processed_some"
        /\ resp[r].s = 1
        /\ resp[r].e = 1
        /\ resp[r].n = 2

\* C4: at every point of a batch the counters are exact (success_count is
\* the number of valid items passed so far, error_count the number of
\* invalid ones) and the graph is the graph the batch found with exactly the
\* nodes named by the valid items made active: an invalid item leaves no
\* node and undoes nothing.  The number of those nodes is the number of
\* distinct identifiers among the successful items, which is S when the
\* identifiers are pairwise distinct and less otherwise.
C4_PartialBatch ==
    \A r \in Req :
        pc[r] \in {"b_item", "b_save", "b_release"} =>
            LET items == req[r].items
                kind == NodeKind(req[r].type)
                V == ValidIn(items, idx[r])
                K == KeysOf(kind, items, V)
            IN  /\ success_count[r] = Cardinality(V)
                /\ error_count[r] = idx[r] - Cardinality(V)
                /\ graph = [k \in NodeKeys |-> IF k \in K THEN "active" ELSE before[r][k]]
                /\ Cardinality(K) <= success_count[r]
                /\ (\A i \in V, j \in V : items[i].id = items[j].id => i = j)
                       => Cardinality(K) = success_count[r]

\* A batch whose first item was applied and whose second item failed
\* validation has ended its loop: the first item's node is active
C4_Witness ==
    \E r \in Req :
        /\ pc[r] = "b_release"
        /\ Len(req[r].items) = 2
        /\ Validate(req[r].items[1])
        /\ ~Validate(req[r].items[2])
        /\ success_count[r] = 1
        /\ error_count[r] = 1
        /\ graph[<<NodeKind(req[r].type), req[r].items[1].id>>] = "active"
        /\ NodeCount(graph) = NodeCount(before[r]) + 1

\* C4 as the specification words it: after the batch the number of active
\* nodes attributable to it is exactly S
C4_ExactlySNodes ==
    \A r \in Req :
        pc[r] = "b_release" =>
            LET items == req[r].items
                K == KeysOf(NodeKind(req[r].type), items, ValidIn(items, Len(items)))
            IN  Cardinality({k \in K : graph[k] = "active"}) = success_count[r]

\* C5: from disable_auto_save to the save_graph call of a batch no disk
\* write has been attempted for it and auto-save is off during the loop;
\* once the call is past, exactly one write has been attempted when
\* success_count > 0 and none when success_count = 0.
C5_OneWritePerBatch ==
    \A r \in Req :
        /\ pc[r] \in {"b_disable", "b_item", "b_save"} => writes[r] = 0
        /\ pc[r] = "b_item" => ~autoSave
        /\ pc[r] = "b_release" =>
               writes[r] = IF success_count[r] > 0 THEN 1 ELSE 0

\* A batch that applied two items is past its save: one write
C5_Witness ==
    \E r \in Req :
        /\ pc[r] = "b_release"
        /\ success_count[r] = 2
        /\ writes[r] = 1

\* C6: the step of the final save, failed or not, leaves the batch at its
\* drop(graph_manager) with the mutex held, the graph and the counters as
\* they were; the return that follows releases the mutex, leaves every node
\* applied by the batch active and reports from the counters alone, the
\* same after a failed save as after a successful one.
C6_SaveFailureSwallowed ==
    [][\A r \in Req :
          /\ (pc[r] = "b_save" /\ pc'[r] # "b_save") =>
                 /\ pc'[r] = "b_release"
                 /\ lock' = r
                 /\ graph' = graph
                 /\ success_count'[r] = success_count[r]
                 /\ error_count'[r] = error_count[r]
          /\ (pc[r] = "b_release" /\ pc'[r] = "done") =>
                 LET items == req[r].items
                     K == KeysOf(NodeKind(req[r].type), items, ValidIn(items, Len(items)))
                 IN  /\ lock' = None
                     /\ \A k \in K : graph'[k] = "active"
                     /\ resp'[r] = BatchReport(success_count[r], error_count[r], Len(items))
                     /\ saveFailed[r] => resp'[r].success]_vars

\* The final save of a batch has failed: the graph file is behind the graph
\* and the batch is about to release the mutex and report
C6_Witness ==
    \E r \in Req :
        /\ pc[r] = "b_release"
        /\ saveFailed[r]
        /\ success_count[r] > 0
        /\ disk.graph # graph

\* The slot r takes up a request that passed the parsing guards
Admitted(r) == pc[r] \in {"idle", "done"} /\ pc'[r] \in Waiting

\* C7 (state part): a single-item request goes on to the GraphManager only
\* with a payload that parsed and a non-empty identifier, a batch only with
\* a payload that parsed as an array.
C7_OnlyWellFormedAdmitted ==
    \A r \in Req :
        /\ pc[r] \in {"s_lock", "s_apply"} =>
               req[r].parses /\ req[r].items[1].id # ""
        /\ pc[r] \in {"b_lock"} \cup BatchInside => req[r].parses

\* C7: an ingest request with an unparseable payload or an empty identifier
\* is never taken up; the arrival that rejects it answers success=false with
\* a message and leaves the graph, the auto-save flag, the sync state, the
\* files and the mutex as they were.
C7_RejectedNeverMutate ==
    /\ []C7_OnlyWellFormedAdmitted
    /\ [][(ops' = ops + 1 /\ ~\E r \in Req : Admitted(r)) =>
              /\ store' = store
              /\ lock' = lock
              /\ \E r \in Req :
                    /\ pc'[r] = "done"
                    /\ ~resp'[r].success
                    /\ resp'[r].msg \in {"could_not_parse", "id_is_empty"}]_vars

\* A request has been rejected for an empty identifier while the graph
\* holds a node
C7_Witness ==
    \E r \in Req :
        /\ pc[r] = "done"
        /\ resp[r].msg = "id_is_empty"
        /\ NodeCount(graph) > 0

\* C8: a reconciliation call with live page names P and live block ids B
\* that returns success turns exactly the active pages not in P and the
\* active blocks not in B into archived nodes, each kind against its own
\* list, reports their number, and writes them all into one new archive
\* file; a call that returns an error archives nothing.  No call adds more
\* than one file, and no call touches another node.
C8_ArchivesExactlyMissing ==
    [][\A r \in Req :
          (pc[r] = "v_apply" /\ pc'[r] = "done") =>
              LET P == req[r].pages
                  B == req[r].blocks
                  missing == {k \in NodeKeys :
                                 /\ graph[k] = "active"
                                 /\ (k[1] = "page" => k[2] \notin P)
                                 /\ (k[1] = "block" => k[2] \notin B)}
                  changed == {k \in NodeKeys : graph[k] = "active" /\ graph'[k] = "archived"}
              IN  /\ \A k \in NodeKeys \ changed : graph'[k] = graph[k]
                  /\ Len(archives') \in {Len(archives), Len(archives) + 1}
                  /\ SubSeq(archives', 1, Len(archives)) = archives
                  /\ IF resp'[r].success
                     THEN /\ changed = missing
                          /\ resp'[r].n = Cardinality(missing)
                          /\ missing # {} =>
                                 /\ Len(archives') = Len(archives) + 1
                                 /\ archives'[Len(archives')].nodes = missing
                     ELSE changed = {} /\ archives' = archives]_vars

\* A reconciliation has archived the block b and kept the block a, which
\* was in its live list: one archive file holding b
C8_Witness ==
    \E r \in Req :
        /\ pc[r] = "done"
        /\ resp[r].msg = "archived"
        /\ resp[r].n = 1
        /\ graph[<<"block", "a">>] = "active"
        /\ graph[<<"block", "b">>] = "archived"
        /\ Len(archives) = 1
        /\ archives[1].nodes = {<<"block", "b">>}

\* C9: a reconciliation call whose live lists hold every active identifier
\* of their kind, with or without identifiers the graph never saw, returns
\* success with a count of zero and leaves the graph, the sync state and
\* the files as they were.
C9_FullLiveSetsArchiveNothing ==
    [][\A r \in Req :
          (/\ pc[r] = "v_apply"
           /\ pc'[r] = "done"
           /\ \A k \in NodeKeys :
                 graph[k] = "active" =>
                     k[2] \in (IF k[1] = "page" THEN req[r].pages ELSE req[r].blocks))
          => /\ resp'[r].success
             /\ resp'[r].n = 0
             /\ store' = store]_vars

\* A reconciliation listing an identifier the graph never saw next to the
\* one it holds has returned a zero count
C9_Witness ==
    \E r \in Req :
        /\ pc[r] = "done"
        /\ resp[r] = [Resp(TRUE, "archived") EXCEPT !.n = 0]
        /\ graph[<<"block", "a">>] = "active"
        /\ graph[<<"block", "b">>] = "absent"
        /\ archives = << >>

\* C10 (state part): every archived node is held by an archive file
C10_ArchivedIsRetained ==
    \A k \in NodeKeys :
        graph[k] = "archived" => \E i \in 1..Len(archives) : k \in archives[i].nodes

\* C10: a node that was ingested stays in the graph, active or archived,
\* through every operation; an archived node is held by an archive file,
\* and archive files are never removed.
C10_NoSilentDataLoss ==
    /\ []C10_ArchivedIsRetained
    /\ [][/\ \A k \in NodeKeys : graph[k] # "absent" => graph'[k] # "absent"
          /\ Len(archives') >= Len(archives)
          /\ SubSeq(archives', 1, Len(archives)) = archives]_vars

\* An ingested node has been archived and is held by an archive file while
\* another ingested node is active
C10_Witness ==
    \E k \in NodeKeys, j \in NodeKeys :
        /\ graph[k] = "archived"
        /\ \E i \in 1..Len(archives) : k \in archives[i].nodes
        /\ graph[j] = "active"

\* The node the handler in slot r is about to create or update, if any
IngestTarget(r) ==
    IF pc[r] = "s_apply"
    THEN {<<NodeKind(req[r].type), req[r].items[1].id>>}
    ELSE IF pc[r] = "b_item" /\ idx[r] < Len(req[r].items)
              /\ Validate(req[r].items[idx[r] + 1])
    THEN {<<NodeKind(req[r].type), req[r].items[idx[r] + 1].id>>}
    ELSE {}

\* C11: an ingest of an identifier, single or as an item of a batch, leaves
\* the node of that identifier active, archived before or not; a node goes
\* from archived to active in no other step, and a reconciliation call
\* leaves every archived node archived whatever its live lists.
C11_ReversibleOnlyByReingestion ==
    [][/\ \A r \in Req : \A k \in IngestTarget(r) :
              (pc'[r] # pc[r] \/ idx'[r] # idx[r]) => graph'[k] = "active"
       /\ \A k \in NodeKeys :
              (graph[k] = "archived" /\ graph'[k] # "archived") =>
                  /\ graph'[k] = "active"
                  /\ \E r \in Req : k \in IngestTarget(r)
       /\ \A r \in Req :
              pc[r] = "v_apply" =>
                  \A k \in NodeKeys : graph[k] = "archived" => graph'[k] = "archived"]_vars

\* A node held by an archive file is active again after a single ingest of
\* its identifier was answered
C11_Witness ==
    \E r \in Req, k \in NodeKeys :
        /\ pc[r] = "done"
        /\ resp[r].msg = "processed"
        /\ graph[k] = "active"
        /\ \E i \in 1..Len(archives) : k \in archives[i].nodes

C13_ForceFlagsOneShot ==
    [][\A r \in Req :
          (pc[r] = "q_read" /\ pc'[r] = "done") =>
              /\ (force_full_sync /\ lastFull # Never) =>
                     /\ ~resp'[r].force_full_sync
                     /\ resp'[r].full_sync_needed = FullSyncNeeded(lastFull, now)
              /\ (force_incremental_sync /\ lastIncr # Never) =>
                     ~resp'[r].force_incremental_sync]_vars

\* C14 as the specification words it: force_incremental_sync alone leaves
\* full_sync_needed as computed from the timestamps, and with both flags
\* set the report carries both overlays.
C14_ForceFlagsIndependent ==
    [][\A r \in Req :
          (pc[r] = "q_read" /\ pc'[r] = "done") =>
              /\ (force_incremental_sync /\ ~force_full_sync) =>
                     /\ resp'[r].full_sync_needed = FullSyncNeeded(lastFull, now)
                     /\ resp'[r].incremental_sync_needed
              /\ force_full_sync => resp'[r].full_sync_needed
              /\ (force_full_sync /\ force_incremental_sync) =>
                     /\ resp'[r].force_full_sync
                     /\ resp'[r].force_incremental_sync]_vars

LeavesSyncWait == main_pc = "await_sync" /\ main_pc' # "await_sync" /\ exit_reason' # "ctrl_c"

\* C17 (state part): the sync wait never lasts longer than the grace bound,
\* and the sync wait, the shutdown and an exit for the duration come only
\* after the countdown has run out.
C17_Bounded ==
    /\ waited <= GraceSecs
    /\ (main_pc \in {"await_sync", "shutdown"} \/ exit_reason = "duration")
           => remaining = 0

\* C17: in duration mode with a launched client, once the countdown has
\* expired main leaves the sync wait for the shutdown only when the sync
\* completion was signalled or the 10 seconds are over, whichever comes
\* first; it never waits longer than them, it always leaves the wait, and
\* it never shuts down for the duration before the countdown has expired.
C17_ForcedProgress ==
    /\ []C17_Bounded
    /\ [][LeavesSyncWait =>
              /\ main_pc' = "shutdown"
              /\ sync_chan.sent > sync_chan.rcvd \/ waited = GraceSecs]_vars
    /\ (main_pc = "await_sync") ~> (main_pc \in {"shutdown", "exited"})

\* The sync wait has ended by its timeout: no sync completion was signalled
\* in 10 seconds
C17_Witness ==
    /\ main_pc = "shutdown"
    /\ waited = GraceSecs
    /\ sync_chan.sent = 0
    /\ logseq_child = "running"

\* C18: with a duration and a launched client, main is at the countdown,
\* at the sync wait or at the shutdown, or has exited for the duration,
\* only after a plugin_initialized message was handled and its signal
\* received by main.
C18_CountdownAfterClientInit ==
    (/\ duration_secs
     /\ logseq_child # "none"
     /\ main_pc \in {"countdown", "await_sync", "shutdown"} \/ exit_reason = "duration")
    => /\ plugin_init_tx = "none"
       /\ init_chan.sent = 1
       /\ init_chan.rcvd = 1

\* The countdown runs after the signal of plugin initialization
C18_Witness ==
    /\ main_pc = "countdown"
    /\ remaining > 0
    /\ logseq_child = "running"
    /\ init_chan.rcvd = 1

\* Request r is a message of the given acknowledgement, handled in this step
Handled(r, ack) ==
    /\ pc[r] \in {"idle", "done"}
    /\ pc'[r] = "done"
    /\ ops' = ops + 1
    /\ resp'[r].msg = ack
    /\ \A q \in Req \ {r} : pc'[q] = pc[q]

\* C19 (state part): each channel has delivered at most one signal and had
\* at most one consumed, none consumed that was not delivered.
C19_AtMostOnce ==
    /\ init_chan.sent <= 1 /\ init_chan.rcvd <= init_chan.sent
    /\ sync_chan.sent <= 1 /\ sync_chan.rcvd <= sync_chan.sent

\* C19: across any number of plugin_initialized and sync_complete messages
\* each channel delivers at most once and is consumed at most once; a
\* message that finds no Sender, the first having taken it or none having
\* been installed, leaves the Senders and the channels as they are, and
\* every message, delivering or not, is acknowledged with success=true.
C19_OneShotSignals ==
    /\ []C19_AtMostOnce
    /\ [][/\ \A r \in Req :
                /\ Handled(r, "plugin_initialization_acknowledged") =>
                      /\ resp'[r].success
                      /\ plugin_init_tx' = "none"
                      /\ plugin_init_tx = "none" => init_chan' = init_chan
                /\ Handled(r, "sync_completion_acknowledged") =>
                      /\ resp'[r].success
                      /\ sync_complete_tx' = "none"
                      /\ sync_complete_tx = "none" => sync_chan' = sync_chan
          /\ init_chan'.sent # init_chan.sent =>
                \E r \in Req : Handled(r, "plugin_initialization_acknowledged")
          /\ sync_chan'.sent # sync_chan.sent =>
                \E r \in Req : Handled(r, "sync_completion_acknowledged")]_vars

\* Two plugin_initialized messages were acknowledged and one signal was
\* delivered
C19_Witness ==
    /\ ops = 2
    /\ \A r \in Req : pc[r] = "done"
                      /\ resp[r] = Resp(TRUE, "plugin_initialization_acknowledged")
    /\ init_chan.sent = 1
    /\ plugin_init_tx = "none"

\* C20 as the specification words it: when the process has exited for the
\* duration after a client was launched, with no request in flight, the
\* persisted graph equals the graph in memory and the client is terminated.
C20_ShutdownFlushes ==
    (/\ main_pc = "exited"
     /\ exit_reason = "duration"
     /\ logseq_child # "none"
     /\ \A r \in Req : pc[r] \in {"idle", "done"})
    => /\ disk.graph = graph
       /\ logseq_child # "running"

\* C21: without a configured duration main never comes to a countdown, a
\* sync wait or a shutdown, whatever plugin_initialized, sync_complete and
\* data messages arrive, no timer runs, the process ends by Ctrl-C only,
\* and receiving the signal of plugin initialization changes nothing but
\* the channel.
C21_NoForcedShutdownWithoutDuration ==
    /\ [](~duration_secs =>
             /\ main_pc \in {"start", "launch", "run", "serve", "exited"}
             /\ exit_reason # "duration"
             /\ remaining = 0 /\ waited = 0
             /\ sync_complete_tx = "none")
    /\ [][(~duration_secs /\ init_chan'.rcvd # init_chan.rcvd) =>
              /\ main_pc = "serve"
              /\ UNCHANGED <<served, main_pc, duration_secs, logseq_child,
                             plugin_init_tx, sync_complete_tx, sync_chan,
                             remaining, waited, server_info, exit_reason>>]_vars

\* Without a duration the server still serves after both signal messages
\* and the observation of the plugin initialization
C21_Witness ==
    /\ ~duration_secs
    /\ main_pc = "serve"
    /\ init_chan.rcvd = 1
    /\ ops = MaxOps
    /\ \E r \in Req : pc[r] = "done" /\ resp[r].msg = "sync_completion_acknowledged"

\* The place of a state of main in the lifecycle; AwaitingClientInit is
\* "await_init", Running "countdown", AwaitingSyncCompletion "await_sync",
\* ShuttingDown "shutdown"
Rank(p) ==
    CASE p = "start" -> 0
      [] p = "launch" -> 1
      [] p = "run" -> 2
      [] p = "await_init" -> 3
      [] p = "serve" -> 3
      [] p = "timeout" -> 4
      [] p = "countdown" -> 4
      [] p = "await_sync" -> 5
      [] p = "shutdown" -> 6
      [] p = "exited" -> 7

\* C22: main's states only move forward and none is entered twice; with a
\* duration and a launched client every step of main other than the exit
\* by Ctrl-C goes to the next state in the order AwaitingClientInit,
\* Running, AwaitingSyncCompletion, ShuttingDown; AwaitingClientInit is
\* left only by consuming the signal, and AwaitingSyncCompletion, when no
\* signal is there, only with the 10 seconds over.
C22_LifecycleForward ==
    [][main_pc' # main_pc =>
          /\ Rank(main_pc') > Rank(main_pc)
          /\ (main_pc \in {"await_init", "countdown", "await_sync"} /\ exit_reason' # "ctrl_c")
                => /\ duration_secs /\ logseq_child = "running"
                   /\ Rank(main_pc') = Rank(main_pc) + 1
                   /\ main_pc' \in {"countdown", "await_sync", "shutdown"}
          /\ (main_pc = "await_init" /\ exit_reason' # "ctrl_c")
                => init_chan.sent > init_chan.rcvd /\ init_chan'.rcvd = init_chan.rcvd + 1
          /\ (main_pc = "await_sync" /\ exit_reason' # "ctrl_c")
                => \/ sync_chan.sent > sync_chan.rcvd /\ sync_chan'.rcvd = sync_chan.rcvd + 1
                   \/ waited = GraceSecs /\ sync_chan'.rcvd = sync_chan.rcvd]_vars

\* A run through all four states to the exit, the sync wait ended by the
\* signal
C22_Witness ==
    /\ main_pc = "exited"
    /\ exit_reason = "duration"
    /\ logseq_child = "killed"
    /\ init_chan.rcvd = 1
    /\ sync_chan.rcvd = 1
    /\ remaining = 0

\* Request r applies a valid payload in this step: the single ingest's call
\* of create_or_update, or that of a batch for its next item
Applies(r) ==
    \/ pc[r] = "s_apply" /\ pc'[r] = "done"
    \/ /\ pc[r] = "b_item" /\ idx'[r] = idx[r] + 1
       /\ Validate(req[r].items[idx[r] + 1])

\* The payload request r applies
Applied(r) == IF pc[r] = "s_apply" THEN req[r].items[1] ELSE req[r].items[idx[r] + 1]

\* C23: whenever a handler has applied a valid block or page payload with
\* create_or_update, to whatever store, applying the same payload once more
\* to the store it left gives the same node count, the same reference count
\* and the same node properties.
C23_CreateOrUpdateIdempotent ==
    [][\A r \in Req : Applies(r) =>
          LET twice == StoreAfter(graph', props', edges', NodeKind(req[r].type), Applied(r))
          IN  /\ graph' = StoreAfter(graph, props, edges, NodeKind(req[r].type), Applied(r)).graph
              /\ NodeCount(twice.graph) = NodeCount(graph')
              /\ ReferenceCount(twice.graph, twice.edges) = ReferenceCount(graph', edges')
              /\ twice.props = props']_vars

\* A batch has applied the same block payload, naming its parent page,
\* twice in a row: one block and one reference are there
C23_Witness ==
    \E r \in Req :
        /\ pc[r] = "b_item"
        /\ req[r].type = "blocks"
        /\ idx[r] = 2
        /\ req[r].items[1] = req[r].items[2]
        /\ req[r].items[1].parent_page = "a"
        /\ graph[<<"block", req[r].items[1].id>>] = "active"
        /\ <<(<<"block", req[r].items[1].id>>), (<<"page", "a">>)>> \in edges
        /\ ReferenceCount(graph, edges) = 1
        /\ NodeCount(graph) = 2

\* The store holds these active nodes, no archived ones, and these references
Holds(g, e, active, refs) ==
    /\ \A k \in NodeKeys : g[k] = (IF k \in active THEN "active" ELSE "absent")
    /\ e = refs

\* Request r ingests, as a single item, this payload of this type
Ingests(r, type, id, parent) ==
    /\ pc[r] = "s_apply" /\ pc'[r] = "done"
    /\ req[r].type = type
    /\ req[r].items[1].id = id
    /\ req[r].items[1].parent_page = parent

\* C24: a status report gives as node_count the number of active nodes and
\* as reference_count a number that includes no reference to an archived
\* node, and all references when nothing is archived. In the scenario, with
\* "a" for the page Inbox and "b" for the block b1: ingesting the page into
\* the empty store gives node_count 1; ingesting the block with that
\* parent_page then gives node_count 2 and reference_count 1; a successful
\* verify with pages {"a"} and no blocks then archives the block and gives
\* node_count 1.
C24_CountsTrackActiveGraph ==
    [][\A r \in Req :
          /\ (pc[r] = "q_read" /\ pc'[r] = "done") =>
                /\ resp'[r].n = Cardinality({k \in NodeKeys : graph[k] = "active"})
                /\ resp'[r].reference_count
                      <= Cardinality({x \in edges : graph[x[2]] # "archived"})
                /\ (\A k \in NodeKeys : graph[k] # "archived")
                      => resp'[r].reference_count = Cardinality(edges)
          /\ (Ingests(r, "page", "a", "") /\ Holds(graph, edges, {}, {})) =>
                NodeCount(graph') = 1
          /\ (/\ Ingests(r, "block", "b", "a")
              /\ Holds(graph, edges, {<<"page", "a">>}, {})) =>
                /\ NodeCount(graph') = 2
                /\ ReferenceCount(graph', edges') = 1
          /\ (/\ pc[r] = "v_apply" /\ pc'[r] = "done" /\ resp'[r].success
              /\ req[r].pages = {"a"} /\ req[r].blocks = {}
              /\ Holds(graph, edges, {<<"page", "a">>, <<"block", "b">>},
                       {<<(<<"block", "b">>), (<<"page", "a">>)>>})) =>
                /\ graph'[<<"block", "b">>] = "archived"
                /\ NodeCount(graph') = 1]_vars

\* The end of the scenario: the block archived by the verify, the page
\* active, the reference kept
C24_Witness ==
    \E r \in Req :
        /\ pc[r] = "done"
        /\ resp[r] = [Resp(TRUE, "archived") EXCEPT !.n = 1]
        /\ graph[<<"page", "a">>] = "active"
        /\ graph[<<"block", "b">>] = "archived"
        /\ graph[<<"block", "a">>] = "absent"
        /\ edges = {<<(<<"block", "b">>), (<<"page", "a">>)>>}
        /\ NodeCount(graph) = 1

\* What a successful save writes: the whole store as it is in memory
InMemory == Snapshot(graph, props, edges, lastFull, lastIncr)

\* C25 (state part): a single ingest whose save failed has left its node in
\* the graph, and the store lock is free again for the requests that follow.
C25_FailureKeepsMutation ==
    \A r \in Req :
        (pc[r] = "done" /\ resp[r] = Resp(FALSE, "error_processing"))
            => /\ \E k \in NodeKeys : graph[k] # "absent"
               /\ lock # r

\* C25: a failed save changes neither the persisted graph nor what the
\* mutation did in memory: a single ingest that reports the failure has
\* applied its payload, and a batch whose final save_graph failed keeps its
\* items; every write that does reach the file, by a later mutation or by
\* save_graph, writes the whole current store, so that the persisted graph
\* then equals the graph in memory, earlier unsaved mutations included.
C25_SaveFailureRecovered ==
    /\ []C25_FailureKeepsMutation
    /\ [][/\ disk' # disk => disk' = InMemory'
          /\ \A r \in Req :
                /\ (Applies(r) /\ resp'[r] = Resp(FALSE, "error_processing")) =>
                      /\ graph' = StoreAfter(graph, props, edges,
                                             NodeKind(req[r].type), Applied(r)).graph
                      /\ graph'[<<NodeKind(req[r].type), Applied(r).id>>] = "active"
                      /\ disk' = disk
                /\ (pc[r] = "b_save" /\ saveFailed'[r]) =>
                      /\ graph' = graph
                      /\ disk' = disk]_vars

\* One ingest has reported its failed save, another's save succeeded after
\* it: the file holds both nodes
C25_Witness ==
    /\ pc["r1"] = "done" /\ resp["r1"] = Resp(FALSE, "error_processing")
    /\ pc["r2"] = "done" /\ resp["r2"] = Resp(TRUE, "processed")
    /\ NodeCount(graph) = 2
    /\ disk = InMemory

\* Both endpoints of every reference are nodes of the store
EndpointsExist(g, e) ==
    \A x \in e : g[x[1]] # "absent" /\ g[x[2]] # "absent"

\* C28: after any sequence of single ingests, batches and reconciliations
\* both endpoints of every stored reference are nodes of the store, active
\* or archived (also when a block is ingested before the page it names as
\* parent_page), and a step that leaves a node archived keeps the
\* references to and from it.
C28_EdgeEndpointsExist ==
    /\ []EndpointsExist(graph, edges)
    /\ [][\A x \in edges :
              (graph'[x[1]] = "archived" \/ graph'[x[2]] = "archived")
                  => x \in edges']_vars

\* A block was ingested before its parent page, which the store created
\* for it, and a reconciliation has then archived that page: the
\* reference of the active block to the archived page is still stored
C28_Witness ==
    \E r \in Req :
        /\ pc[r] = "done"
        /\ resp[r] = [Resp(TRUE, "archived") EXCEPT !.n = 1]
        /\ graph[<<"page", "a">>] = "archived"
        /\ props[<<"page", "a">>] = "none"
        /\ graph[<<"block", "b">>] = "active"
        /\ <<(<<"block", "b">>), (<<"page", "a">>)>> \in edges

\* C29: whenever no batch holds the store lock the auto-save flag is
\* enabled; a batch past its loop, whatever its counts of successes and
\* failures, has the flag enabled again before it drops the guard; and a
\* single ingest that holds the lock runs with auto-save enabled.
C29_AutoSaveRestored ==
    /\ (\A r \in Req : ~(lock = r /\ pc[r] \in BatchInside)) => autoSave
    /\ \A r \in Req :
          /\ pc[r] \in {"b_save", "b_release"} => autoSave
          /\ pc[r] = "s_apply" => autoSave

\* A batch of two items that both failed has answered, and a single
\* ingest now holds the lock, with auto-save enabled
C29_Witness ==
    \E r, o \in Req :
        /\ pc[r] = "done"
        /\ resp[r] = [Resp(FALSE, "failed_to_process_any") EXCEPT !.e = 2]
        /\ pc[o] = "s_apply"
        /\ lock = o
        /\ autoSave

\* Request r is a batch of no items that takes this step of its handler
EmptyBatchStep(r, from, to) ==
    /\ pc[r] = from
    /\ pc'[r] = to
    /\ req[r].parses
    /\ req[r].items = << >>

\* C30: a batch with zero items answers with the overall success
\* "processed all 0"; the step at its save_graph makes no call (no write is
\* attempted and the persisted graph stays as it is); when it answers the
\* graph is the graph it found at lock() and auto-save is enabled.
C30_EmptyBatch ==
    [][\A r \in Req :
          /\ EmptyBatchStep(r, "b_save", "b_release") =>
                /\ writes'[r] = 0
                /\ disk' = disk
                /\ graph' = before[r]
          /\ EmptyBatchStep(r, "b_release", "done") =>
                /\ resp'[r] = [Resp(TRUE, "processed_all") EXCEPT !.n = 0]
                /\ writes[r] = 0
                /\ graph' = before[r]
                /\ autoSave']_vars

\* An empty batch has answered "processed all 0" and auto-save is enabled
C30_Witness ==
    \E r \in Req :
        /\ pc[r] = "done"
        /\ resp[r] = [Resp(TRUE, "processed_all") EXCEPT !.n = 0]
        /\ autoSave

\* Request r's reconciliation call returns in this step
VerifyReturns(r) == pc[r] = "v_apply" /\ pc'[r] = "done"

\* C31: a node is marked archived only in a step that writes it to a new
\* archive file; a reconciliation call whose archive file could not be
\* written answers success = false and leaves every node as it was; so in
\* every state each node of the store is active or held by an archive
\* record.
C31_ArchivedOnlyIfWritten ==
    /\ [](\A k \in NodeKeys :
            graph[k] \in {"absent", "active"}
                \/ \E i \in 1..Len(archives) : k \in archives[i].nodes)
    /\ [][/\ \A k \in NodeKeys :
                (graph[k] # "archived" /\ graph'[k] = "archived") =>
                    /\ Len(archives') = Len(archives) + 1
                    /\ k \in archives'[Len(archives')].nodes
          /\ \A r \in Req :
                VerifyReturns(r) =>
                    /\ (/\ MissingNodes(graph, req[r].pages, req[r].blocks) # {}
                        /\ archives' = archives) => ~resp'[r].success
                    /\ ~resp'[r].success => graph' = graph]_vars

\* A reconciliation that found a node missing has failed to write its
\* archive file: it answered the error, no file exists and the node is
\* still active
C31_Witness ==
    \E r \in Req :
        /\ pc[r] = "done"
        /\ resp[r] = Resp(FALSE, "error_during_verification")
        /\ archives = << >>
        /\ \E k \in NodeKeys : graph[k] = "active"
        /\ \A k \in NodeKeys : graph[k] # "archived"

\* A sync_complete message was handled and main has not yet taken its signal
SignalPending == sync_chan.sent > sync_chan.rcvd

\* C32: in duration mode with a launched client, a sync_complete message
\* handled before the countdown expires leaves its signal in the channel
\* until main awaits it; the wait entered at the expiry of the countdown
\* then ends without a second of the grace timeout, by the receipt of the
\* signal, and it does end.
C32_EarlySignalKept ==
    /\ []((main_pc \in {"await_init", "countdown"} /\ sync_complete_tx = "none")
            => (SignalPending /\ sync_chan.rx = "alive"))
    /\ [][(main_pc = "countdown" /\ main_pc' = "await_sync")
              => (SignalPending' <=> sync_complete_tx = "none")]_vars
    /\ [][(main_pc = "await_sync" /\ SignalPending /\ waited = 0) =>
              /\ waited' = 0
              /\ main_pc' \in {"await_sync", "shutdown", "exited"}
              /\ main_pc' = "shutdown" => sync_chan'.rcvd = sync_chan.rcvd + 1]_vars
    /\ (main_pc = "await_sync" /\ SignalPending /\ waited = 0)
           ~> (main_pc \in {"shutdown", "exited"} /\ waited = 0)

\* The sync wait has ended on the signal with none of the 10 seconds used
C32_Witness ==
    /\ main_pc = "shutdown"
    /\ duration_secs
    /\ logseq_child = "running"
    /\ sync_complete_tx = "none"
    /\ sync_chan.rcvd = 1
    /\ waited = 0

\* The process launched the client
Launched == logseq_child # "none"

\* C33 (as stated): the first plugin_initialized message of every run finds
\* the Sender of the client-initialized channel in AppState, and in
\* duration mode with a launched client the first sync_complete message
\* finds the Sender of the sync channel.
C33_SendersAlwaysInstalled ==
    [][\A r \in Req :
          /\ (Handled(r, "plugin_initialization_acknowledged") /\ init_chan.sent = 0)
                => plugin_init_tx = "some"
          /\ (/\ Handled(r, "sync_completion_acknowledged")
              /\ duration_secs /\ Launched /\ sync_chan.sent = 0)
                => sync_complete_tx = "some"]_vars

\* C33 (amended): when a client was launched the Sender of the
\* client-initialized channel is in AppState from before the server serves
\* until the first plugin_initialized message takes it, and in duration mode
\* with a launched client so is the Sender of the sync channel until the
\* first sync_complete message; in these modes the first message of either
\* type finds its Sender and delivers its signal.
C33_SendersInstalledWhenLaunched ==
    /\ []((Serving /\ Launched /\ init_chan.sent = 0) => plugin_init_tx = "some")
    /\ []((Serving /\ Launched /\ duration_secs /\ sync_chan.sent = 0)
            => sync_complete_tx = "some")
    /\ [][\A r \in Req :
              /\ (/\ Handled(r, "plugin_initialization_acknowledged")
                  /\ Launched /\ init_chan.sent = 0)
                    => (plugin_init_tx = "some" /\ init_chan'.sent = 1)
              /\ (/\ Handled(r, "sync_completion_acknowledged")
                  /\ duration_secs /\ Launched /\ sync_chan.sent = 0)
                    => (sync_complete_tx = "some" /\ sync_chan'.sent = 1)]_vars

\* With a duration and a launched client the first sync_complete message
\* came while main still awaited the plugin's initialization: it found its
\* Sender and its signal is in the channel
C33_Witness ==
    \E r \in Req :
        /\ pc[r] = "done"
        /\ resp[r] = Resp(TRUE, "sync_completion_acknowledged")
        /\ main_pc = "await_init"
        /\ duration_secs
        /\ Launched
        /\ plugin_init_tx = "some"
        /\ sync_complete_tx = "none"
        /\ sync_chan.sent = 1

\* The run with a duration and no launched client
TimeoutMode == duration_secs /\ ~Launched

\* C34: with a duration and no launched client the countdown of the whole
\* duration starts when the server starts to serve; main never awaits a
\* signal, no Sender and no channel exists; at the expiry of the countdown
\* main goes to the shutdown, and it does exit; a plugin_initialized or
\* sync_complete message is acknowledged with success and changes nothing
\* but the response.
C34_TimeoutModeIgnoresSignals ==
    /\ [](TimeoutMode =>
             /\ main_pc \in {"start", "launch", "run", "timeout", "shutdown", "exited"}
             /\ waited = 0
             /\ plugin_init_tx = "none" /\ sync_complete_tx = "none"
             /\ init_chan = NoChannel /\ sync_chan = NoChannel)
    /\ [][(TimeoutMode /\ main_pc' # main_pc /\ exit_reason' # "ctrl_c") =>
              /\ main_pc = "run" => (main_pc' = "timeout" /\ remaining' = DurationSecs)
              /\ main_pc = "timeout" => (remaining = 0 /\ main_pc' = "shutdown")]_vars
    /\ [][\A r \in Req :
              (/\ TimeoutMode
               /\ \/ Handled(r, "plugin_initialization_acknowledged")
                  \/ Handled(r, "sync_completion_acknowledged")) =>
                  /\ resp'[r].success
                  /\ UNCHANGED <<store, lock, process, main_pc, duration_secs,
                                 logseq_child, plugin_init_tx, sync_complete_tx,
                                 init_chan, sync_chan, remaining, waited,
                                 server_info, exit_reason>>]_vars
    /\ (TimeoutMode /\ main_pc = "timeout") ~> (main_pc = "exited")

\* The run without a client has ended for its duration after it
\* acknowledged a sync_complete and a plugin_initialized message
C34_Witness ==
    /\ TimeoutMode
    /\ main_pc = "exited"
    /\ exit_reason = "duration"
    /\ \E r, o \in Req :
          /\ resp[r] = Resp(TRUE, "sync_completion_acknowledged")
          /\ resp[o] = Resp(TRUE, "plugin_initialization_acknowledged")

\* The graph with its persisted copy and archive files, the sync
\* timestamps, the auto-save flag, and both signal channels with their
\* Senders
Framed == <<graph, props, edges, disk, archives, lastFull, lastIncr, autoSave,
            plugin_init_tx, init_chan, sync_complete_tx, sync_chan>>

\* Request r's handler takes a step from one of these positions to one of
\* those
Steps(r, from, to) == pc[r] \in from /\ pc'[r] \in to /\ pc'[r] # pc[r]

\* C35: every step of a sync status query, every step of a data message
\* whose type tag is absent or none of block, blocks, block_batch, page,
\* pages, page_batch, plugin_initialized, sync_complete, and a log message
\* leave the graph, the sync timestamps, the auto-save flag and both signal
\* channels as they are; the status query returns the status, the data
\* message "Data received" and the log message its acknowledgement, each in
\* the handler's last step.
C35_ReadOnlyRequests ==
    [][\A r \in Req :
          /\ Steps(r, {"idle", "done", "q_lock"}, {"q_lock", "q_read"}) =>
                UNCHANGED Framed
          /\ Steps(r, {"q_read"}, {"idle", "done", "q_lock", "q_read"} \cup Inside) =>
                /\ pc'[r] = "done"
                /\ resp'[r].msg = "status"
                /\ UNCHANGED Framed
          /\ Steps(r, {"idle", "done"}, {"d_route"}) => UNCHANGED Framed
          /\ (pc[r] = "d_route" /\ req[r].type \notin KnownTags /\ pc' # pc) =>
                /\ pc'[r] = "done"
                /\ resp'[r] = Resp(TRUE, "data_received")
                /\ UNCHANGED Framed
          /\ Handled(r, "log_received") =>
                /\ resp'[r] = Resp(TRUE, "log_received")
                /\ UNCHANGED Framed]_vars

\* A data message of no matched type was answered by a server whose graph
\* holds a node and whose client-initialized channel waits for its signal
C35_Witness ==
    \E r \in Req :
        /\ pc[r] = "done"
        /\ resp[r] = Resp(TRUE, "data_received")
        /\ NodeCount(graph) = 1
        /\ plugin_init_tx = "some"
        /\ init_chan.rx = "alive"

\* The steps the handler of request r has still to take before it has
\* dropped the lock it holds; 0 when it holds none
StepsLeft(r) ==
    CASE pc[r] = "b_disable" -> Len(req[r].items) + 4
      [] pc[r] = "b_item" -> Len(req[r].items) - idx[r] + 3
      [] pc[r] = "b_save" -> 2
      [] pc[r] \in {"b_release", "s_apply", "q_read", "t_apply", "v_apply", "x_take"} -> 1
      [] OTHER -> 0

\* C36 (state part): a handler holds at most one of the Mutexes of
\* AppState, and one that holds the store lock or a Sender's lock is at
\* most MaxBatch + 4 steps from dropping it.
C36_OneLockBounded ==
    \A r \in Req :
        /\ Cardinality(LocksHeld(r)) <= 1
        /\ "logseq_child" \notin LocksHeld(r)
        /\ LocksHeld(r) # {} <=> StepsLeft(r) > 0
        /\ StepsLeft(r) <= MaxBatch + 4

\* C36: no handler ever holds two of the store lock, the two Sender locks
\* and the client-process lock; every step of a handler that holds a lock
\* brings it one step nearer to dropping it, which it does after a bounded
\* number of steps; and under fair scheduling every request that waits in
\* a lock() gets the lock and returns its response.
C36_NoDeadlock ==
    /\ []C36_OneLockBounded
    /\ [][\A r \in Req :
              (LocksHeld(r) # {} /\ <<pc[r], idx[r]>> # <<pc'[r], idx'[r]>>)
                  => StepsLeft(r)' = StepsLeft(r) - 1]_vars
    /\ \A r \in Req : (pc[r] \in AtLock) ~> (pc[r] = "done")

\* A batch holds the store lock while the other request waits for it
C36_Witness ==
    /\ lock = "r1"
    /\ pc["r1"] = "b_item"
    /\ idx["r1"] = 1
    /\ pc["r2"] \in {"s_lock", "q_lock", "v_lock"}

(* ------------------------------------------------------------------ *)
(* FunctionRegistry (aichat-agent-lib/src/functions.rs)                 *)
(* ------------------------------------------------------------------ *)

\* The server's variables, which the library never touches
backend == <<store, lock, waitq, handlers, ops, process>>

registry == <<functions, declarations, registered, outcome>>

repl == <<temp_builder, existing_config, agent_name, original, session>>

\* A register that keeps the function already under the name
\* (entry().or_insert) and pushes the declaration all the same
Register_KeepsFirst(name, description, func) ==
    /\ Len(registered) < MaxRegs
    /\ functions' = [functions EXCEPT
                        ![name] = IF @ = "none" THEN func ELSE @]
    /\ declarations' = Append(declarations, SimpleDeclaration(name, description))
    /\ registered' = Append(registered,
                            [name |-> name, func |-> func,
                             declaration |-> SimpleDeclaration(name, description)])
    /\ UNCHANGED <<outcome, repl, backend>>

\* registry.register(name, description, func): insert replaces the function
\* under the name, the new declaration goes to the end
Register(name, description, func) ==
    /\ Len(registered) < MaxRegs
    /\ functions' = [functions EXCEPT ![name] = func]
    /\ declarations' = Append(declarations, SimpleDeclaration(name, description))
    /\ registered' = Append(registered,
                            [name |-> name, func |-> func,
                             declaration |-> SimpleDeclaration(name, description)])
    /\ UNCHANGED <<outcome, repl, backend>>

\* registry.register_with_declaration(declaration, func)
RegisterWithDeclaration(declaration, func) ==
    /\ Len(registered) < MaxRegs
    /\ functions' = [functions EXCEPT ![declaration.name] = func]
    /\ declarations' = Append(declarations, declaration)
    /\ registered' = Append(registered,
                            [name |-> declaration.name, func |-> func,
                             declaration |-> declaration])
    /\ UNCHANGED <<outcome, repl, backend>>

\* "Function '{}' not found"
NotFound(name) == [called |-> "none", ok |-> FALSE, value |-> <<"not_found", 0>>]

\* registry.execute(name, args)
Execute(name, args) ==
    /\ outcome' = IF functions[name] # "none"
                  THEN [called |-> functions[name],
                        ok |-> Call(functions[name], args).ok,
                        value |-> Call(functions[name], args).value]
                  ELSE NotFound(name)
    /\ UNCHANGED <<functions, declarations, registered, repl, backend>>

InitRegistry == Init

NextRegistry ==
    \/ \E name \in FnNames, func \in NativeFunctions :
          Register(name, "described", func)
    \/ \E declaration \in FullDeclarations, func \in NativeFunctions :
          RegisterWithDeclaration(declaration, func)
    \/ \E name \in ExecNames, args \in ArgValues : Execute(name, args)

SpecRegistry == InitRegistry /\ [][NextRegistry]_vars

\* The register calls made under a name, by their place in the call order
CallsUnder(name) == {i \in 1..Len(registered) : registered[i].name = name}

\* The function of the last register call under the name
MostRecent(name) ==
    registered[CHOOSE i \in CallsUnder(name) :
                   \A j \in CallsUnder(name) : j <= i].func

\* C37: after any sequence of register and register_with_declaration calls
\* declarations() holds one declaration per call, in call order; execute
\* of a registered name calls the function most recently registered under
\* it and returns that function's result or error; execute of a name never
\* registered returns the "not found" error and calls no function.
C37_RegistryKeepsCallsInOrder ==
    /\ [](/\ Len(declarations) = Len(registered)
          /\ \A i \in 1..Len(registered) :
                declarations[i] = registered[i].declaration)
    /\ [][\A name \in ExecNames, args \in ArgValues :
            Execute(name, args) =>
                IF CallsUnder(name) = {}
                THEN /\ outcome'.called = "none"
                     /\ ~outcome'.ok
                     /\ outcome'.value[1] = "not_found"
                ELSE /\ outcome'.called = MostRecent(name)
                     /\ outcome'.ok = (MostRecent(name) = "f")
                     /\ outcome'.value =
                            <<IF MostRecent(name) = "f" THEN "f" ELSE "failed",
                              args>>]_vars

\* "add" registered three times, by both calls, the failing function last,
\* and executed after that; "hello" never registered
C37_Witness ==
    /\ Len(registered) = 3
    /\ \A i \in 1..3 : registered[i].name = "add"
    /\ registered[1].func = "f"
    /\ registered[1].declaration.description = "described"
    /\ registered[2].declaration.description = "declared"
    /\ registered[3].func = "g"
    /\ outcome.called = "g"
    /\ outcome.value = <<"failed", 1>>

(* ------------------------------------------------------------------ *)
(* ReplBuilder (aichat-agent-lib/src/repl_wrapper.rs)                   *)
(* ------------------------------------------------------------------ *)

\* TempConfigBuilder::new(): "model": "" and "clients": []
NewTempConfig == SomeConfig("", << >>)

\* The configurations a caller hands to with_config
Configs == {SomeConfig(model, <<key>>) : model \in Models, key \in ApiKeys}

\* The builder exists and build has not consumed it
Building == session.stage = "builder"

\* One more call of a builder method
Called(method, arg) ==
    [session EXCEPT !.calls = Append(@, <<method, arg>>)]

\* ReplBuilder::new(): Err when the temporary directory cannot be made
New ==
    /\ session.stage = "unmade"
    /\ \/ /\ temp_builder' = NewTempConfig
          /\ session' = [session EXCEPT !.stage = "builder"]
       \/ /\ temp_builder' = NoConfig
          /\ session' = [session EXCEPT !.stage = "error"]
    /\ existing_config' = NoConfig
    /\ agent_name' = "none"
    /\ original' = NoConfig
    /\ UNCHANGED <<registry, backend>>

\* ReplBuilder::with_config(config)
WithConfig(config) ==
    /\ session.stage = "unmade"
    /\ temp_builder' = NoConfig
    /\ existing_config' = config
    /\ agent_name' = "none"
    /\ original' = config
    /\ session' = [session EXCEPT !.stage = "builder"]
    /\ UNCHANGED <<registry, backend>>

\* builder.api_key(provider, key): only a temp builder takes the key
ApiKey(key) ==
    /\ Building
    /\ Len(session.calls) < MaxSets
    /\ temp_builder' = IF temp_builder.some
                       THEN [temp_builder EXCEPT !.clients = Append(@, key)]
                       ELSE temp_builder
    /\ session' = Called("api_key", key)
    /\ UNCHANGED <<existing_config, agent_name, original, registry, backend>>

\* A model call that starts a temp builder when there is none
Model_StartsTempConfig(model) ==
    /\ Building
    /\ Len(session.calls) < MaxSets
    /\ temp_builder' = [(IF temp_builder.some THEN temp_builder ELSE NewTempConfig)
                           EXCEPT !.model = model]
    /\ session' = Called("model", model)
    /\ UNCHANGED <<existing_config, agent_name, original, registry, backend>>

\* builder.model(model): only a temp builder takes the model
Model(model) ==
    /\ Building
    /\ Len(session.calls) < MaxSets
    /\ temp_builder' = IF temp_builder.some
                       THEN [temp_builder EXCEPT !.model = model]
                       ELSE temp_builder
    /\ session' = Called("model", model)
    /\ UNCHANGED <<existing_config, agent_name, original, registry, backend>>

\* builder.agent(agent_name)
Agent(name) ==
    /\ Building
    /\ Len(session.calls) < MaxSets
    /\ agent_name' = name
    /\ session' = Called("agent", name)
    /\ UNCHANGED <<temp_builder, existing_config, original, registry, backend>>

\* build_config's match on (temp_builder, existing_config): the outcomes of
\* the arm taken. builder.build() initialises a Config from the file it
\* wrote, where an empty model is replaced by setup_model, or fails.
BuildConfig ==
    IF temp_builder.some /\ ~existing_config.some
    THEN {[kind |-> "err", config |-> NoConfig]}
         \cup {[kind |-> "ok", config |-> SomeConfig(model, temp_builder.clients)] :
                 model \in IF temp_builder.model = ""
                           THEN Models ELSE {temp_builder.model}}
    ELSE IF ~temp_builder.some /\ existing_config.some
    THEN {[kind |-> "ok", config |-> existing_config]}
    ELSE {[kind |-> "unreachable", config |-> NoConfig]}

\* builder.build(): build_config()?, then use_agent()? when an agent was
\* named; the builder is consumed
Build ==
    /\ Building
    /\ \E built \in BuildConfig :
          \/ /\ built.kind # "ok"
             /\ session' = [session EXCEPT
                    !.stage = IF built.kind = "err" THEN "error" ELSE "unreachable"]
          \/ /\ built.kind = "ok"
             /\ session' = [session EXCEPT !.stage = "built",
                                           !.config = built.config,
                                           !.agent = agent_name]
          \/ /\ built.kind = "ok"
             /\ agent_name # "none"
             /\ session' = [session EXCEPT !.stage = "error"]
    /\ temp_builder' = NoConfig
    /\ existing_config' = NoConfig
    /\ agent_name' = "none"
    /\ UNCHANGED <<original, registry, backend>>

InitBuilder == Init

NextBuilder ==
    \/ New
    \/ \E config \in Configs : WithConfig(config)
    \/ \E key \in ApiKeys : ApiKey(key)
    \/ \E model \in Models : Model(model)
    \/ \E name \in AgentNames : Agent(name)
    \/ Build

SpecBuilder == InitBuilder /\ [][NextBuilder]_vars

\* C38: a ReplBuilder made by new() or with_config() has, after any api_key,
\* model and agent calls, exactly one of temp_builder and existing_config,
\* so build_config never takes its unreachable arm; on a builder made by
\* with_config() the api_key and model calls change nothing, and the
\* session built holds the configuration given, with its model.
C38_OneConfigurationSource ==
    /\ Building => (temp_builder.some # existing_config.some)
    /\ session.stage # "unreachable"
    /\ (Building /\ original.some) =>
          /\ ~temp_builder.some
          /\ existing_config = original
    /\ (session.stage = "built" /\ original.some) =>
          /\ session.config = original
          /\ session.config.model = original.model

\* with_config on a "gpt" configuration, then api_key, model("claude") and
\* agent, and the session was built
C38_Witness ==
    /\ session.stage = "built"
    /\ original = SomeConfig("gpt", <<"sk-test">>)
    /\ session.calls = <<<<"api_key", "sk-new">>, <<"model", "claude">>,
                         <<"agent", "math">>>>
    /\ session.agent = "math"
    /\ session.config.model = "gpt"

====
